---- MODULE Spec2Model ----
(***************************************************************************)
(* Account acquisition pipeline of persona-simulator: the multi-source     *)
(* fetch orchestrator (GrokAPI.fetch_posts over XAPIClient), the CLI       *)
(* fetcher and batch runner (ingest_accounts.py), the UI fetcher with its  *)
(* session overlay (app.py) and the pickle file cache (utils/bootstrap.py).*)
(*                                                                         *)
(* Durations are in tenths of a second, so that the jitter of the          *)
(* rate-limit wait (up to 0.3 s per second of backoff) is an integer.      *)
(***************************************************************************)
EXTENDS Integers, Sequences, FiniteSets, TLC

\* ------------------------------------------------------------------------
\* Bounds of the model
\* ------------------------------------------------------------------------
\* number of identities in the account list
NumAccounts == 2
\* longest post list an upstream answer or a seeded cache file holds
MaxPosts == 1
\* calls of fetch_posts in one behaviour of the system
MaxFetches == 2
\* largest retry attempt number passed to the rate-limit wait
MaxAttempt == 2
\* most failed, and most generated-source, accounts in a batch summary
MaxCount == 3
\* candidates in a pool the samplers are explored over
MaxPool == 4
\* the values of an attribute are at most 2^MaxLog in the entropy study
MaxLog == 4

\* calls of a RateLimitManager in the study of the manager by itself
MaxCalls == 5

\* queries of a call of discover_accounts_hybrid
MaxQueries == 2

\* accounts of the list of the UI in the study of its batch runner
MaxListed == 12

\* ------------------------------------------------------------------------
\* Program constants
\* ------------------------------------------------------------------------
\* RateLimitManager.__init__: remaining_calls = 15
InitialBudget == 15
\* RateLimitManager.should_wait / wait_if_needed: threshold = 3
WaitThreshold == 3
\* RateLimitManager.wait_if_needed: time.sleep(900), in tenths of a second
ConservativeWait == 9000
\* RateLimitManager.wait_if_needed: time.sleep(wait_seconds + 5)
WaitMargin == 50
\* app.py: UI_MAX_RATE_WAIT_SECONDS = 0
UI_MAX_RATE_WAIT_SECONDS == 0
\* fetch_posts / fetch_user_tweets: max_rate_wait_seconds = 900 (tenths)
DefaultMaxRateWait == 9000
\* _wait_for_rate_limit_reset: min(2 ** attempt, 60), the cap in seconds
BackoffCap == 60
\* main: GENERATED_RATIO_THRESHOLD = 5.0, in percent
GENERATED_RATIO_THRESHOLD == 5

\* app.py: BATCH_SIZE = 10
BATCH_SIZE == 10

\* discover_accounts_hybrid: fewer candidates of the API than this call for
\* the web search
MinUsefulBatch == 5

Accounts == 1..NumAccounts

\* ------------------------------------------------------------------------
\* XAPIClient._wait_for_rate_limit_reset
\* ------------------------------------------------------------------------
RECURSIVE Pow2(_)
Pow2(n) == IF n = 0 THEN 1 ELSE 2 * Pow2(n - 1)

Min(a, b) == IF a <= b THEN a ELSE b
Max(a, b) == IF a >= b THEN a ELSE b

\* exponential_backoff = min(2 ** attempt, 60), in seconds
ExponentialBackoff(attempt) == Min(Pow2(attempt), BackoffCap)

\* jitter = random.uniform(0, 0.3) * exponential_backoff, in tenths
JitterRange(attempt) == 0..(3 * ExponentialBackoff(attempt))

\* wait_seconds = base_wait_seconds + exponential_backoff + jitter (tenths)
ComputedWait(base, attempt, jitter) ==
    base + 10 * ExponentialBackoff(attempt) + jitter

\* A 429 response's x-rate-limit-reset header: absent, not an integer, or
\* the reset time, given as its distance from now in tenths of a second.
NoHeader == [present |-> FALSE, parses |-> FALSE, delta |-> 0]
BadHeader == [present |-> TRUE, parses |-> FALSE, delta |-> 0]
ResetIn(d) == [present |-> TRUE, parses |-> TRUE, delta |-> d]

WaitMutSleepCapped(hdr, max_wait, attempt, jitter) ==
    IF ~hdr.present THEN [ok |-> FALSE, slept |-> 0]
    ELSE IF ~hdr.parses THEN [ok |-> FALSE, slept |-> 0]
    ELSE IF hdr.delta <= 0 THEN [ok |-> TRUE, slept |-> 0]
    ELSE IF max_wait <= 0 THEN [ok |-> FALSE, slept |-> 0]
    ELSE [ok |-> TRUE, slept |-> ComputedWait(hdr.delta, attempt, jitter)]

\* returns whether the caller may retry, and how long the call slept
WaitForRateLimitReset(hdr, max_wait, attempt, jitter) ==
    IF ~hdr.present THEN [ok |-> FALSE, slept |-> 0]
    ELSE IF ~hdr.parses THEN [ok |-> FALSE, slept |-> 0]
    ELSE IF hdr.delta <= 0 THEN [ok |-> TRUE, slept |-> 0]
    ELSE IF max_wait <= 0 THEN [ok |-> FALSE, slept |-> 0]
    ELSE IF ComputedWait(hdr.delta, attempt, jitter) > max_wait
         THEN [ok |-> FALSE, slept |-> 0]
    ELSE [ok |-> TRUE, slept |-> ComputedWait(hdr.delta, attempt, jitter)]

\* no call of it is under study
NoWaitCall == [hdr |-> NoHeader, max_wait |-> 0, attempt |-> 0, jitter |-> 0,
               done |-> FALSE, ok |-> FALSE, slept |-> 0]

\* ------------------------------------------------------------------------
\* Data: posts, personas, cache files
\* ------------------------------------------------------------------------
\* A post is represented by the prefix of its id: a tweet id of the primary
\* API ("tweet"), web_search_<account>_<i>, or a synthetic sample_/generated_.
PostKinds == {"tweet", "web_search_", "sample_", "generated_"}

\* the non-empty post lists one upstream answer can hold, all of one kind
PostLists(kind) == {[i \in 1..n |-> kind] : n \in 1..MaxPosts}

\* A persona is None or a dict; of the dict the model keeps whether it has
\* profile keys (name, background, ...) and whether it has quality_score.
NonePersona == [null |-> TRUE, profile |-> FALSE, scored |-> FALSE, quality_score |-> 0]
EmptyPersona == [null |-> FALSE, profile |-> FALSE, scored |-> FALSE, quality_score |-> 0]
ProfilePersona == [null |-> FALSE, profile |-> TRUE, scored |-> FALSE, quality_score |-> 0]
WithScoreMutDrops(p, s) == p

WithScore(p, s) == [p EXCEPT !.scored = TRUE, !.quality_score = s]

\* Python truthiness of a persona: not None and not an empty dict
Truthy(p) == ~p.null /\ (p.profile \/ p.scored)

\* scores (x 100) check_account_quality can return: one below and one above
\* the floor min_quality_score = 0.6
QualityScores == {45, 80}

\* A cache file: absent, a pickled object that is not a mapping (a non-empty
\* list), or a pickled entry.
NoFile == [kind |-> "none", posts |-> <<>>, persona |-> NonePersona,
           source |-> "missing", fetched_at |-> 0]
NonMapping == [kind |-> "nonmapping", posts |-> <<>>, persona |-> NonePersona,
               source |-> "missing", fetched_at |-> 0]
Entry(posts, persona, source, at) ==
    [kind |-> "entry", posts |-> posts, persona |-> persona,
     source |-> source, fetched_at |-> at]

\* the files an earlier run (or an earlier version) can have left behind
SeedFiles ==
    { NoFile, NonMapping,
      Entry(<<"tweet">>, WithScore(ProfilePersona, 80), "twitter", 0),
      Entry(<<"web_search_">>, ProfilePersona, "missing", 0),
      Entry(<<"tweet">>, EmptyPersona, "twitter", 0),
      Entry(<<"sample_">>, ProfilePersona, "missing", 0),
      Entry(<<"generated_">>, WithScore(ProfilePersona, 80), "generated", 0) }

\* app.has_generated_posts and the same test inlined in fetch_account_data
HasGeneratedMutLast(posts) ==
    posts # <<>> /\ posts[Len(posts)] \in {"sample_"}

\* a test that finds no list generated
HasGeneratedMutNever(posts) == FALSE

has_generated_posts(posts) ==
    posts # <<>> /\ posts[1] \in {"sample_", "generated_"}

\* ------------------------------------------------------------------------
\* Error classification
\* ------------------------------------------------------------------------
\* An exception is represented by its status_code attribute (0: none) and by
\* the keywords that occur in str(error).lower().
Error(code, tokens) == [status_code |-> code, tokens |-> tokens]
NoError == Error(0, {})

RetriableKeywords ==
    {"timeout", "connection", "temporarily", "503", "500", "502", "504", "network"}

ShouldRetryMutAlways(error) == TRUE

\* fetch_posts._should_retry_error
ShouldRetryError(error) ==
    IF error.status_code \in {401, 403, 404, 429} THEN FALSE
    ELSE error.tokens \cap RetriableKeywords # {}

\* ErrorHandler.handle_api_error: the keywords of the message it returns for
\* an exception whose text holds the keywords `tokens`
handle_api_error(tokens) ==
    IF "timeout" \in tokens THEN {}
    ELSE IF "401" \in tokens \/ "403" \in tokens THEN {}
    ELSE IF "429" \in tokens THEN {}
    ELSE IF "500" \in tokens \/ "502" \in tokens \/ "503" \in tokens THEN {}
    ELSE tokens

\* What one HTTP request to the primary API can meet: a status, or an
\* exception of the requests library.
HttpOutcomes ==
    {"200", "200_empty", "429", "401", "403", "404", "500", "502", "503",
     "504", "timeout", "connection"}

\* str() of the requests exception: "...ConnectionPool(...): Read timed out.
\* (read timeout=15)" or "...ConnectionPool(...): Max retries exceeded ..."
ExceptionTokens(r) ==
    IF r = "timeout" THEN {"timeout", "connection"} ELSE {"connection"}

\* ------------------------------------------------------------------------
\* XAPIClient: what one call of a client method comes to
\* ------------------------------------------------------------------------
\* kind: the call returned posts, returned [] or raised `error`;
\* event: the upstream condition that decided it; calls: HTTP requests made;
\* slept: time slept in _wait_for_rate_limit_reset.
Outcome(kind, error, event, calls, slept) ==
    [kind |-> kind, error |-> error, event |-> event, calls |-> calls, slept |-> slept]

\* the 429 headers the model lets the primary API send
Headers == {NoHeader, BadHeader, ResetIn(-10), ResetIn(100), ResetIn(8988)}

\* fetch_user_tweets, one response that is not a 429 (calls, slept so far)
UserTweetsAnswer(r, calls, slept) ==
    CASE r = "200" -> Outcome("posts", NoError, r, calls, slept)
      [] r = "200_empty" -> Outcome("empty", NoError, r, calls, slept)
      [] r = "401" -> Outcome("raise", Error(0, {}), r, calls, slept)
      [] r \in {"timeout", "connection"} ->
            Outcome("raise", Error(0, ExceptionTokens(r)), r, calls, slept)
      [] OTHER -> Outcome("raise", Error(0, handle_api_error({r})), r, calls, slept)

RateLimited(calls, slept) == Outcome("raise", Error(429, {}), "429", calls, slept)

\* XAPIClient.fetch_user_tweets: the user-id lookup, then at most two
\* requests, the second only after a 429 and a successful wait
FetchUserTweets(uid_ok, r0, hdr, jitter, r1, max_wait_seconds) ==
    IF ~uid_ok THEN Outcome("empty", NoError, "no_user_id", 1, 0)
    ELSE IF r0 # "429" THEN UserTweetsAnswer(r0, 2, 0)
    ELSE IF max_wait_seconds > 0
            /\ WaitForRateLimitReset(hdr, max_wait_seconds, 0, jitter).ok
         THEN LET w == WaitForRateLimitReset(hdr, max_wait_seconds, 0, jitter).slept
              IN  IF r1 = "429" THEN RateLimited(3, w)
                  ELSE UserTweetsAnswer(r1, 3, w)
    ELSE RateLimited(2, 0)

\* search_recent_tweets, one response that is not a 429: every failure,
\* exceptions included, is turned into an empty list
SearchAnswer(r, calls, slept) ==
    IF r = "200" THEN Outcome("posts", NoError, r, calls, slept)
    ELSE Outcome("empty", NoError, r, calls, slept)

\* XAPIClient.search_recent_tweets
SearchRecentTweets(r0, hdr, jitter, r1, max_wait_seconds) ==
    IF r0 # "429" THEN SearchAnswer(r0, 1, 0)
    ELSE IF max_wait_seconds > 0
            /\ WaitForRateLimitReset(hdr, max_wait_seconds, 0, jitter).ok
         THEN SearchAnswer(IF r1 = "429" THEN "429_again" ELSE r1, 2,
                           WaitForRateLimitReset(hdr, max_wait_seconds, 0, jitter).slept)
    ELSE Outcome("empty", NoError, "429", 1, 0)

\* what the chat-completion request of the web search can meet
WebOutcomes == {"posts", "no_posts", "http_error", "timeout", "connection", "bad_json"}

\* GrokAPI._fetch_posts_via_web_search over generate_completion: every
\* failure, exceptions included, is turned into an empty list
FetchPostsViaWebSearch(r) ==
    IF r = "posts" THEN Outcome("posts", NoError, r, 1, 0)
    ELSE Outcome("empty", NoError, r, 1, 0)

\* The upstream conditions a run is explored under: everything the code
\* distinguishes, or the few that matter to what a fetch leaves behind.
AnyUpstream == [lookup |-> BOOLEAN, http |-> HttpOutcomes,
                headers |-> {NoHeader, ResetIn(100)},
                web |-> WebOutcomes, quality |-> QualityScores]
PlainUpstream == [lookup |-> {TRUE}, http |-> {"200", "429"}, headers |-> {NoHeader},
                  web |-> {"posts", "no_posts"}, quality |-> {80}]

\* the ways a call of fetch_user_tweets can end under the conditions up
UserTweetsOutcomes(up, max_wait_seconds) ==
    {FetchUserTweets(uid_ok, r0, NoHeader, 0, "200", max_wait_seconds) :
            uid_ok \in up.lookup, r0 \in up.http \ {"429"}}
    \cup {FetchUserTweets(uid_ok, "429", h, j, r1, max_wait_seconds) :
            uid_ok \in up.lookup, h \in up.headers, j \in JitterRange(0),
            r1 \in up.http}

\* the ways a call of search_recent_tweets can end
SearchOutcomes(up, max_wait_seconds) ==
    {SearchRecentTweets(r0, NoHeader, 0, "200", max_wait_seconds) :
            r0 \in up.http \ {"429"}}
    \cup {SearchRecentTweets("429", h, j, r1, max_wait_seconds) :
            h \in up.headers, j \in JitterRange(0), r1 \in up.http}

\* the ways a call of _fetch_posts_via_web_search can end
WebSearchOutcomes(up) == {FetchPostsViaWebSearch(r) : r \in up.web}

\* ------------------------------------------------------------------------
\* DiversitySampler: deduplication and the sampling strategies
\* ------------------------------------------------------------------------
\* The handles of candidates are strings over the characters "@", " ", "u",
\* "U" and "v", as sequences; a candidate of the discovery carries its
\* handle and the rest of its dict (tag).

\* no call of another unit is studied
NoUnitCall == [op |-> "none"]

\* no call of the sampler is studied
NoSamplerCall == [op |-> "none"]

\* str.lstrip("@"): every leading "@" goes, nothing else
RECURSIVE LStripAt(_)
LStripAt(h) == IF h # <<>> /\ Head(h) = "@" THEN LStripAt(Tail(h)) ELSE h

\* str.lower()
Lower(h) == [i \in 1..Len(h) |-> IF h[i] = "U" THEN "u" ELSE h[i]]

\* the fallback of discover_accounts_hybrid is consulted after the API gave
\* account_batch
NeedsFallback(account_batch, fallback_to_grok, has_grok) ==
    /\ account_batch = <<>> \/ Len(account_batch) < MinUsefulBatch
    /\ fallback_to_grok
    /\ has_grok

\* a merge that appends every candidate of the web search
GrokMergeMutNoCheck(account_batch, grok_batch) == account_batch \o grok_batch

\* the candidates of the web search appended to account_batch: those with a
\* handle that is not empty and not among the handles of the API
GrokMerge(account_batch, grok_batch) ==
    IF grok_batch = <<>> THEN account_batch
    ELSE LET existing_handles ==
                 {LStripAt(account_batch[i].handle) : i \in 1..Len(account_batch)}
             Appended(candidate) ==
                 /\ LStripAt(candidate.handle) # <<>>
                 /\ LStripAt(candidate.handle) \notin existing_handles
         IN  account_batch \o SelectSeq(grok_batch, Appended)

\* the comparison key of _deduplicate_accounts
HandleKey(a) == Lower(LStripAt(a.handle))

\* the loop of _deduplicate_accounts from the accounts left, the handles
\* seen and the list built so far
RECURSIVE DedupLoop(_, _, _)
DedupLoop(accounts, seen_handles, unique) ==
    IF accounts = <<>> THEN unique
    ELSE LET handle == HandleKey(Head(accounts))
         IN  IF handle # <<>> /\ handle \notin seen_handles
             THEN DedupLoop(Tail(accounts), seen_handles \cup {handle},
                            Append(unique, Head(accounts)))
             ELSE DedupLoop(Tail(accounts), seen_handles, unique)

\* a deduplication that keeps the last occurrence of a key
RECURSIVE DedupMutKeepsLast(_)
DedupMutKeepsLast(accounts) ==
    IF accounts = <<>> THEN <<>>
    ELSE LET handle == HandleKey(Head(accounts))
             rest == Tail(accounts)
         IN  IF handle # <<>>
                /\ \A i \in 1..Len(rest) : HandleKey(rest[i]) # handle
             THEN <<Head(accounts)>> \o DedupMutKeepsLast(rest)
             ELSE DedupMutKeepsLast(rest)

deduplicate_accounts(accounts) == DedupLoop(accounts, {}, <<>>)

\* FOLLOWER_STRATA and _get_follower_stratum
FollowerStratum(followers_count) ==
    IF followers_count < 0 THEN "unknown"
    ELSE IF followers_count < 100 THEN "micro"
    ELSE IF followers_count < 1000 THEN "small"
    ELSE IF followers_count < 10000 THEN "medium"
    ELSE IF followers_count < 100000 THEN "large"
    ELSE IF followers_count < 1000000 THEN "macro"
    ELSE "mega"

\* the strata key of an account: one part per attribute asked for
StratumKey(a, strata_attributes) ==
    <<IF "followers" \in strata_attributes
        THEN FollowerStratum(a.followers_count) ELSE "",
      IF "region" \in strata_attributes THEN a.region ELSE "",
      IF "language" \in strata_attributes THEN a.language ELSE "",
      IF "sentiment" \in strata_attributes THEN a.dominant_sentiment ELSE "">>

\* the positions of the accounts of stratum k
StratumOf(accounts, strata_attributes, k) ==
    {i \in 1..Len(accounts) : StratumKey(accounts[i], strata_attributes) = k}

\* the least of a non-empty set of numbers
Least(S) == CHOOSE i \in S : \A j \in S : i <= j

\* the members of s at the positions T, in the order of s
RECURSIVE Pick(_, _)
Pick(s, T) ==
    IF T = {} THEN <<>> ELSE <<s[Least(T)]>> \o Pick(s, T \ {Least(T)})

\* random.sample(s, k): the outcomes, each k members of s at distinct
\* positions (written in the order of s); k is at most len(s) at every call
RandomSample(s, k) == {Pick(s, T) : T \in {U \in SUBSET (1..Len(s)) : Cardinality(U) = k}}

\* round(n / d) of Python for n >= 0 and d > 0: to the nearest integer, a
\* half to the even one
PyRound(n, d) ==
    LET q == n \div d
        r == n % d
    IN  IF 2 * r < d THEN q
        ELSE IF 2 * r > d THEN q + 1
        ELSE IF q % 2 = 0 THEN q ELSE q + 1

\* a sample size that rounds to the nearest integer
SampleSizeMutRound(num_samples, stratum_size, total_accounts) ==
    Max(1, PyRound(num_samples * stratum_size, total_accounts))

\* the size of the sample of one stratum
SampleSize(num_samples, stratum_size, total_accounts) ==
    Max(1, (num_samples * stratum_size) \div total_accounts)

\* the loop over strata.values(), in the order the strata were met: the
\* lists 'sampled' it can build from the positions not yet in a stratum taken
RECURSIVE StrataLoop(_, _, _, _)
StrataLoop(accounts, num_samples, strata_attributes, left) ==
    IF left = {} THEN {<<>>}
    ELSE LET stratum == StratumOf(accounts, strata_attributes,
                                  StratumKey(accounts[Least(left)], strata_attributes))
             stratum_accounts == Pick(accounts, stratum)
             stratum_size == Len(stratum_accounts)
             sample_size == SampleSize(num_samples, stratum_size, Len(accounts))
         IN  {p \o q : p \in RandomSample(stratum_accounts,
                                          Min(sample_size, stratum_size)),
                       q \in StrataLoop(accounts, num_samples, strata_attributes,
                                        left \ stratum)}

\* a stratified sampling without the final cut to num_samples
StratifiedMutNoCut(accounts, num_samples, strata_attributes) ==
    IF accounts = <<>> THEN {<<>>}
    ELSE StrataLoop(accounts, num_samples, strata_attributes, 1..Len(accounts))

\* stratified_sampling: the lists it can return
stratified_sampling(accounts, num_samples, strata_attributes) ==
    IF accounts = <<>> THEN {<<>>}
    ELSE UNION {IF Len(sampled) > num_samples
                THEN RandomSample(sampled, num_samples)
                ELSE {sampled} :
                  sampled \in StrataLoop(accounts, num_samples, strata_attributes,
                                         1..Len(accounts))}

\* a lookup that gives a value without an entry a quota of one
QuotaGetMutOne(quota, value) == IF value \in DOMAIN quota THEN quota[value] ELSE 1

\* quota.get(value, 0)
QuotaGet(quota, value) == IF value \in DOMAIN quota THEN quota[value] ELSE 0

\* the attributes quota_sampling knows, and the value of an account for each
QuotaAttributes == {"followers", "region", "sentiment"}

AttributeValue(a, attribute) ==
    IF attribute = "followers" THEN FollowerStratum(a.followers_count)
    ELSE IF attribute = "region" THEN a.region
    ELSE a.dominant_sentiment

\* quota_counts[attribute][value] once 'sampled' was built
QuotaCount(sampled, attribute, value) ==
    Cardinality({i \in 1..Len(sampled) : AttributeValue(sampled[i], attribute) = value})

\* a check of fit that lets an attribute go one over its quota
FitsMutOneOver(a, sampled, quotas) ==
    \A attribute \in DOMAIN quotas \cap QuotaAttributes :
        QuotaCount(sampled, attribute, AttributeValue(a, attribute))
            <= QuotaGet(quotas[attribute], AttributeValue(a, attribute))

\* fits: no configured attribute has its quota reached for the account
Fits(a, sampled, quotas) ==
    \A attribute \in DOMAIN quotas \cap QuotaAttributes :
        QuotaCount(sampled, attribute, AttributeValue(a, attribute))
            < QuotaGet(quotas[attribute], AttributeValue(a, attribute))

\* the walk of quota_sampling over the shuffled list
RECURSIVE QuotaWalk(_, _, _, _)
QuotaWalk(shuffled, quotas, max_total, sampled) ==
    IF shuffled = <<>> \/ Len(sampled) >= max_total THEN sampled
    ELSE QuotaWalk(Tail(shuffled), quotas, max_total,
                   IF Fits(Head(shuffled), sampled, quotas)
                   THEN Append(sampled, Head(shuffled)) ELSE sampled)

\* random.shuffle: the orders of a list
RECURSIVE Orders(_, _)
Orders(s, T) ==
    IF T = {} THEN {<<>>}
    ELSE UNION {{<<s[i]>> \o rest : rest \in Orders(s, T \ {i})} : i \in T}

Shuffles(s) == Orders(s, 1..Len(s))

\* quota_sampling: the lists it can return
quota_sampling(accounts, quotas, max_total) ==
    {QuotaWalk(shuffled, quotas, max_total, <<>>) : shuffled \in Shuffles(accounts)}

\* _generate_default_quotas
generate_default_quotas(max_total) ==
    [followers |-> [micro |-> max_total \div 6, small |-> max_total \div 6,
                    medium |-> max_total \div 3, large |-> max_total \div 4,
                    macro |-> max_total \div 12, mega |-> max_total \div 12],
     region |-> [JP |-> max_total \div 2, US |-> max_total \div 4,
                 GB |-> max_total \div 8, KR |-> max_total \div 8],
     sentiment |-> [positive |-> max_total \div 3, neutral |-> max_total \div 3,
                    negative |-> max_total \div 3]]

\* the attributes discover_accounts_hybrid stratifies by
HybridStrataAttributes == {"followers", "region", "language", "sentiment"}

\* a dispatch that samples max_results at random even from a smaller pool:
\* random.sample raises ValueError, nothing is returned
SampleMutRandomUnclamped(sampling_method, enriched_candidates, max_results) ==
    IF sampling_method = "stratified"
    THEN stratified_sampling(enriched_candidates, max_results, HybridStrataAttributes)
    ELSE IF sampling_method = "quota"
    THEN quota_sampling(enriched_candidates, generate_default_quotas(max_results),
                        max_results)
    ELSE IF max_results > Len(enriched_candidates) THEN {}
    ELSE RandomSample(enriched_candidates, max_results)

\* the sampling step of discover_accounts_hybrid: the lists 'sampled' can be
SampleByMethod(sampling_method, enriched_candidates, max_results) ==
    IF sampling_method = "stratified"
    THEN stratified_sampling(enriched_candidates, max_results, HybridStrataAttributes)
    ELSE IF sampling_method = "quota"
    THEN quota_sampling(enriched_candidates, generate_default_quotas(max_results),
                        max_results)
    ELSE RandomSample(enriched_candidates, Min(max_results, Len(enriched_candidates)))

\* ------------------------------------------------------------------------
\* GrokAPI.check_account_quality
\* ------------------------------------------------------------------------
\* QUALITY_THRESHOLDS; min_quality_score is 0.6, six tenths of ScoreUnit
MIN_FOLLOWERS == 100
MIN_TWEET_COUNT == 50
MAX_DAYS_INACTIVE == 180

\* A score s of the code is kept as the whole number s * ScoreUnit, which is
\* exact for every term of the weighted sum over whole-number metrics.
ScoreUnit == 3420000

MinQualityScore == 6 * (ScoreUnit \div 10)

\* what the evaluation has of the account: the metrics of
\* x_api_client.fetch_user_metrics when a client is given and answers, else
\* the public_metrics of account_info when it has any, else nothing
NoMetrics == [available |-> FALSE, followers_count |-> 0, tweet_count |-> 0,
              last_tweet_at |-> "none", days_inactive |-> 0]

\* last_tweet_at: "none" (None), "date" (an ISO date, days_inactive days
\* ago) or "bad" (a string fromisoformat rejects)
Metrics(followers_count, tweet_count, last_tweet_at, days_inactive) ==
    [available |-> TRUE, followers_count |-> followers_count,
     tweet_count |-> tweet_count, last_tweet_at |-> last_tweet_at,
     days_inactive |-> days_inactive]

\* the metrics used: those of the X API, else those found at discovery,
\* which carry no last_tweet_at
MetricsUsed(x_metrics, account_info) ==
    IF x_metrics.available THEN x_metrics
    ELSE IF account_info.public_metrics.available
    THEN Metrics(account_info.public_metrics.followers_count,
                 account_info.public_metrics.tweet_count, "none", 0)
    ELSE NoMetrics

\* followers_norm
FollowersNorm(followers_count) ==
    IF followers_count >= 10000 THEN ScoreUnit
    ELSE IF followers_count >= 1000
    THEN (ScoreUnit \div 18000) * (followers_count + 8000)
    ELSE IF followers_count >= MIN_FOLLOWERS
    THEN 3 * (ScoreUnit \div (10 * MIN_FOLLOWERS)) * followers_count
    ELSE (ScoreUnit \div (10 * MIN_FOLLOWERS)) * followers_count

\* recency_norm
RecencyNorm(m) ==
    IF m.last_tweet_at # "date" THEN 0
    ELSE IF m.days_inactive <= 30 THEN ScoreUnit
    ELSE IF m.days_inactive <= 90 THEN 7 * (ScoreUnit \div 10)
    ELSE IF m.days_inactive <= MAX_DAYS_INACTIVE THEN 3 * (ScoreUnit \div 10)
    ELSE 0

\* postcount_norm
PostcountNorm(tweet_count) ==
    IF tweet_count >= 1000 THEN ScoreUnit
    ELSE IF tweet_count >= MIN_TWEET_COUNT
    THEN (ScoreUnit \div 1900) * (tweet_count - MIN_TWEET_COUNT + 950)
    ELSE 3 * (ScoreUnit \div (10 * MIN_TWEET_COUNT)) * tweet_count

\* score = 0.5 * followers_norm + 0.3 * recency_norm + 0.2 * postcount_norm,
\* limited to 0.0 .. 1.0
MetricsScore(m) ==
    Max(0, Min(ScoreUnit,
               FollowersNorm(m.followers_count) \div 2
                   + 3 * (RecencyNorm(m) \div 10)
                   + PostcountNorm(m.tweet_count) \div 5))

\* the minimum checks of the metrics branch
MetricsPassed(m) ==
    /\ ~(m.followers_count < MIN_FOLLOWERS)
    /\ ~(m.tweet_count < MIN_TWEET_COUNT)
    /\ ~(m.last_tweet_at = "date" /\ m.days_inactive > MAX_DAYS_INACTIVE)
    /\ ~(MetricsScore(m) < MinQualityScore)

\* the fallback branch: confidence is in hundredths
FallbackScore(account_info) ==
    LET confidence == account_info.confidence
        score == IF confidence < 70 THEN 8 * (ScoreUnit \div 1000) * confidence
                 ELSE ScoreUnit \div 2 + (ScoreUnit \div 200) * (confidence - 50)
    IN  IF account_info.description_short THEN 9 * (score \div 10) ELSE score

FallbackPassed(account_info) == ~(account_info.confidence < 70)

\* the check of the handle
HandlePassed(account_info) ==
    ~(account_info.handle_len < 3 \/ account_info.handle_len > 15)

\* an evaluation that leaves the decision to the score floor and the handle
QualityMutFloorOnly(x_metrics, account_info) ==
    LET m == MetricsUsed(x_metrics, account_info)
    IN  IF m.available
        THEN [passed |-> ~(MetricsScore(m) < MinQualityScore)
                         /\ HandlePassed(account_info),
              score |-> MetricsScore(m)]
        ELSE [passed |-> FallbackPassed(account_info) /\ HandlePassed(account_info),
              score |-> FallbackScore(account_info)]

\* check_account_quality with the default thresholds: x_metrics is what
\* fetch_user_metrics came to (not available: no client, None, an exception)
check_account_quality(x_metrics, account_info) ==
    LET m == MetricsUsed(x_metrics, account_info)
    IN  IF m.available
        THEN [passed |-> MetricsPassed(m) /\ HandlePassed(account_info),
              score |-> MetricsScore(m)]
        ELSE [passed |-> FallbackPassed(account_info) /\ HandlePassed(account_info),
              score |-> FallbackScore(account_info)]

\* ------------------------------------------------------------------------
\* DiversitySampler: entropy and diversity metrics
\* ------------------------------------------------------------------------
\* The values of an attribute are kept as their Counter: the counts of the
\* distinct values in the order they are first met. The floating-point
\* computation is exact, and followed exactly, where every count and the
\* total are powers of two and so is the number of distinct values: there
\* math.log2 returns whole numbers and every product, sum and quotient is a
\* binary fraction. An entropy e is kept as the whole number e * EntropyUnit.
EntropyUnit == Pow2(MaxLog + 3)

IsPow2(x) == \E e \in 0..(MaxLog + 3) : x = Pow2(e)

\* math.log2 of a power of two
RECURSIVE Log2(_)
Log2(x) == IF x <= 1 THEN 0 ELSE 1 + Log2(x \div 2)

RECURSIVE SumSeq(_)
SumSeq(s) == IF s = <<>> THEN 0 ELSE Head(s) + SumSeq(Tail(s))

\* entropy -= p * math.log2(p) over counter.values(), p = count / total
RECURSIVE EntropySum(_, _)
EntropySum(counts, total) ==
    IF counts = <<>> THEN 0
    ELSE (EntropyUnit \div total) * Head(counts) * (Log2(total) - Log2(Head(counts)))
            + EntropySum(Tail(counts), total)

\* an entropy that is not divided by max_entropy
EntropyMutNotNormalized(counts) ==
    IF counts = <<>> THEN 0 ELSE EntropySum(counts, SumSeq(counts))

\* _calculate_entropy
calculate_entropy(counts) ==
    IF counts = <<>> THEN 0
    ELSE LET total == SumSeq(counts)
             entropy == EntropySum(counts, total)
             max_entropy == IF Len(counts) > 1 THEN Log2(Len(counts)) ELSE 1
         IN  IF max_entropy > 0 THEN entropy \div max_entropy ELSE 0

\* the attributes calculate_diversity_metrics knows
MetricAttributes == {"followers", "region", "language", "sentiment"}

\* the attributes of the list that get an entry in metrics
Measured(attributes) ==
    {attributes[i] : i \in 1..Len(attributes)} \cap MetricAttributes

\* calculate_diversity_metrics over the Counters of the four attributes of
\* the accounts: the <attribute>_entropy entries and overall_diversity,
\* which is there when there is any entry
calculate_diversity_metrics(counters, attributes) ==
    LET entropies == [a \in Measured(attributes) |-> calculate_entropy(counters[a])]
        ms == Measured(attributes)
        RECURSIVE Total(_)
        Total(S) == IF S = {} THEN 0
                    ELSE LET a == CHOOSE a \in S : TRUE
                         IN  entropies[a] + Total(S \ {a})
    IN  [entropies |-> entropies,
         has_overall |-> ms # {},
         overall_diversity |-> IF ms # {} THEN Total(ms) \div Cardinality(ms) ELSE 0]

\* ------------------------------------------------------------------------
\* read_accounts_from_file
\* ------------------------------------------------------------------------
\* A file is [exists, csv, column, has_source, rows]; a row is [text, source].
\* In a text file 'text' is the line without its line end; in a CSV file it
\* is the cell of the account column and 'source' the cell of the source
\* column, NaN standing for a cell pandas read as missing.  A source is a
\* text of one word.

NaN == <<"NaN">>

\* str(float('nan'))
NanText == <<"n", "a", "n">>

\* str(cell)
Str(cell) == IF cell = NaN THEN NanText ELSE cell

\* str.lstrip()
RECURSIVE LStrip(_)
LStrip(h) == IF h # <<>> /\ Head(h) = " " THEN LStrip(Tail(h)) ELSE h

\* str.rstrip()
RECURSIVE RStrip(_)
RStrip(h) ==
    IF h # <<>> /\ h[Len(h)] = " " THEN RStrip(SubSeq(h, 1, Len(h) - 1)) ELSE h

\* str.strip()
Strip(h) == RStrip(LStrip(h))

\* the lines of a text file kept by the comprehension
TextLine(row) == Strip(row.text) # <<>> /\ (row.text = <<>> \/ Head(row.text) # "#")

\* the CSV branch
ReadCsv(file, with_metadata) ==
    IF ~file.column THEN <<>>
    ELSE IF with_metadata
    THEN LET HasHandle(row) == LStripAt(Strip(Str(row.text))) # <<>>
             kept == SelectSeq(file.rows, HasHandle)
         IN  [i \in 1..Len(kept) |->
                 [handle |-> LStripAt(Strip(Str(kept[i].text))),
                  source |-> IF file.has_source /\ kept[i].source # NaN
                             THEN kept[i].source ELSE <<"unknown">>]]
    ELSE LET NotNa(row) == row.text # NaN
             kept == SelectSeq(file.rows, NotNa)
         IN  [i \in 1..Len(kept) |-> LStripAt(Strip(kept[i].text))]

\* the text branch
ReadTxt(file, with_metadata) ==
    LET lines == SelectSeq(file.rows, TextLine)
    IN  IF with_metadata
        THEN [i \in 1..Len(lines) |->
                 [handle |-> LStripAt(Strip(lines[i].text)), source |-> <<"unknown">>]]
        ELSE [i \in 1..Len(lines) |-> LStripAt(Strip(lines[i].text))]

read_accounts_from_file(file, with_metadata) ==
    IF ~file.exists THEN <<>>
    ELSE IF file.csv THEN ReadCsv(file, with_metadata)
    ELSE ReadTxt(file, with_metadata)

\* accounts of main: the handles of accounts_with_meta
MainAccounts(accounts_with_meta) ==
    [i \in 1..Len(accounts_with_meta) |-> accounts_with_meta[i].handle]

\* ------------------------------------------------------------------------
\* State
\* ------------------------------------------------------------------------
VARIABLES
    cache,            \* .cache/posts_<account>.pkl, per account
    session_state,    \* st.session_state["session_data_<account>"] of the UI
    now,              \* logical clock behind datetime.now(): fetches so far
    upstream,         \* the upstream conditions of the run
    horizon,          \* the fetches the run is explored for
    process,          \* the processes that run: cli, ui or both
    wait_call,        \* a call of _wait_for_rate_limit_reset taken by itself
    exit_call,        \* the end of main taken by itself, over a batch summary
    ui_backfill,      \* a quality backfill of the UI between its read and its write
    sampler_call,     \* a call of the DiversitySampler taken by itself
    unit_call,        \* a call of another unit taken by itself, the latest of them
    pc,               \* where the fetch in flight is: idle, s1, s2, s3, ret, raised
    caller,           \* who runs the fetch in flight: cli, ui, none
    account,          \* its account
    request,          \* its use_cache and force_refresh arguments
    x_api,            \* whether it was given an XAPIClient
    max_rate_wait,    \* its max_rate_wait_seconds
    attempt,          \* the attempt number of the strategy loop it is in
    posts,            \* what fetch_posts returned
    log,              \* the strategy attempts of the fetch, in order
    last,             \* the latest of them: the condition met, the error raised
    net_calls,        \* upstream requests issued by the operation
    quality_calls,    \* calls of check_account_quality made by the operation
    slept,            \* time the operation slept waiting for a rate-limit reset
    delayed,          \* time the operation slept before retries
    rate_limiter,     \* the RateLimitManager of the batch run
    batch,            \* the batch run: its position, arguments and counters
    result            \* what the last finished fetch returned

vars == <<cache, session_state, now, upstream, horizon, process, wait_call, exit_call,
          ui_backfill, sampler_call, unit_call, pc,
          caller, account, request, x_api, max_rate_wait,
          attempt, posts, log, last, net_calls, quality_calls, slept, delayed,
          rate_limiter, batch, result>>

env == <<upstream, horizon, process, wait_call, exit_call, ui_backfill,
         sampler_call, unit_call>>

fetchVars == <<pc, caller, account, request, x_api, max_rate_wait, attempt, posts, log,
               last, net_calls, quality_calls, slept, delayed>>

\* ------------------------------------------------------------------------
\* RateLimitManager
\* ------------------------------------------------------------------------
\* the arguments of a fetch, and what its cache check found: nothing
\* ("miss"), an entry it returns ("hit"), an entry with synthetic posts
\* ("contaminated"), an object that is no mapping ("malformed"); "unread" if
\* it made no check
Request(use_cache, force_refresh, found) ==
    [use_cache |-> use_cache, force_refresh |-> force_refresh, found |-> found]

NoRequest == Request(TRUE, FALSE, "unread")

\* reset_time is None or a time, kept as its distance from the present
NoReset == [known |-> FALSE, delta |-> 0]

\* RateLimitManager.__init__
NewRateLimitManager == [remaining_calls |-> InitialBudget, reset_time |-> NoReset,
                        slept |-> 0]

\* RateLimitManager.should_wait
should_wait(rl, threshold) == rl.remaining_calls <= threshold

\* RateLimitManager.wait_if_needed; slept accumulates what it slept
wait_if_needed(rl, threshold) ==
    IF ~should_wait(rl, threshold) THEN rl
    ELSE IF rl.reset_time.known
         THEN IF rl.reset_time.delta > 0
              THEN [remaining_calls |-> InitialBudget,
                    reset_time |-> [known |-> TRUE, delta |-> 0 - WaitMargin],
                    slept |-> rl.slept + rl.reset_time.delta + WaitMargin]
              ELSE rl
    ELSE [rl EXCEPT !.remaining_calls = InitialBudget,
                    !.slept = rl.slept + ConservativeWait]

\* a decrement without the floor
DecrementMutNoFloor(rl) == [rl EXCEPT !.remaining_calls = rl.remaining_calls - 1]

\* RateLimitManager.decrement
decrement(rl) ==
    IF rl.remaining_calls > 0
    THEN [rl EXCEPT !.remaining_calls = rl.remaining_calls - 1]
    ELSE rl

\* the rate-limit headers of a response: the calls left, if the header is
\* there, and the reset time as its distance from the present, if it is
LimitHeaders(has_remaining, remaining, has_reset, reset_in) ==
    [has_remaining |-> has_remaining, remaining |-> remaining,
     has_reset |-> has_reset, reset_in |-> reset_in]

\* RateLimitManager.update_from_headers
update_from_headers(rl, headers) ==
    [rl EXCEPT
        !.remaining_calls = IF headers.has_remaining THEN headers.remaining ELSE @,
        !.reset_time = IF headers.has_reset
                       THEN [known |-> TRUE, delta |-> headers.reset_in] ELSE @]

\* the present moves on by d while the manager is not called
later(rl, d) ==
    IF rl.reset_time.known
    THEN [rl EXCEPT !.reset_time.delta = @ - d]
    ELSE rl

\* ------------------------------------------------------------------------
\* GrokAPI.fetch_posts: the three strategy loops
\* ------------------------------------------------------------------------
\* whether the upstream answered with posts, with nothing, with a 429 to
\* which the client gave up, or with another error
Condition(event) ==
    IF event \in {"200", "posts"} THEN "ok"
    ELSE IF event \in {"200_empty", "no_user_id", "no_posts"} THEN "nothing"
    ELSE IF event \in {"429", "429_again"} THEN "limited"
    ELSE "error"

LogEntry(s, n, o) ==
    [strategy |-> s, attempt |-> n, kind |-> o.kind, cond |-> Condition(o.event)]

LastCall(s, n, o) ==
    [strategy |-> s, attempt |-> n, event |-> o.event, kind |-> o.kind,
     error |-> o.error]

NoCall == [strategy |-> 0, attempt |-> 0, event |-> "none", kind |-> "none",
           error |-> NoError]

\* time.sleep(2) before the retry of strategies 1 and 2, time.sleep(3) of 3
RetryDelay(s) == IF s = 3 THEN 30 ELSE 20

\* the except clauses of the strategy loops catch Exception: no error of a
\* strategy leaves fetch_posts
Propagates(error) == FALSE

\* an orchestrator that goes from strategy 1 to strategy 3
NextStrategyMutSkips(s) == IF s = 1 THEN "s3" ELSE "ret"

NextStrategy(s) == IF s = 1 THEN "s2" ELSE IF s = 2 THEN "s3" ELSE "ret"
PcOf(s) == IF s = 1 THEN "s1" ELSE IF s = 2 THEN "s2" ELSE "s3"

RetriesMutNever(s, n, o) == FALSE

\* except Exception as error: if attempt == 0 and _should_retry_error(error)
Retries(s, n, o) == o.kind = "raise" /\ n = 0 /\ ShouldRetryError(o.error)

\* one pass through the body of the loop of strategy s: the call came to o
\* and, if it returned posts, to the list ps
Attempt(s, o, ps) ==
    /\ log' = Append(log, LogEntry(s, attempt, o))
    /\ last' = LastCall(s, attempt, o)
    /\ net_calls' = net_calls + o.calls
    /\ slept' = slept + o.slept
    /\ IF o.kind = "posts"
       THEN /\ posts' = ps /\ pc' = "ret" /\ attempt' = 0 /\ delayed' = delayed
       ELSE IF o.kind = "raise" /\ Propagates(o.error)
       THEN /\ posts' = <<>> /\ pc' = "raised" /\ attempt' = 0 /\ delayed' = delayed
       ELSE IF Retries(s, attempt, o)
       THEN /\ posts' = <<>> /\ pc' = PcOf(s) /\ attempt' = 1
            /\ delayed' = delayed + RetryDelay(s)
       ELSE /\ posts' = <<>> /\ pc' = NextStrategy(s) /\ attempt' = 0
            /\ delayed' = delayed
    /\ UNCHANGED <<cache, session_state, now, env, caller, account, request, x_api,
                   max_rate_wait, quality_calls, rate_limiter, batch, result>>

\* strategy 1: x_api_client.fetch_user_tweets
Strategy1 ==
    /\ pc = "s1"
    /\ \E o \in UserTweetsOutcomes(upstream, max_rate_wait), ps \in PostLists("tweet") :
          Attempt(1, o, ps)

\* strategy 2: x_api_client.search_recent_tweets("from:<account> ...")
Strategy2 ==
    /\ pc = "s2"
    /\ \E o \in SearchOutcomes(upstream, max_rate_wait), ps \in PostLists("tweet") :
          Attempt(2, o, ps)

\* strategy 3: self._fetch_posts_via_web_search
Strategy3 ==
    /\ pc = "s3"
    /\ \E o \in WebSearchOutcomes(upstream), ps \in PostLists("web_search_") :
          Attempt(3, o, ps)

\* the call of fetch_posts: if x_api_client: strategies 1 and 2, then 3
StartFetchPosts(who, a, xapi, wait) ==
    /\ now < horizon
    /\ now' = now + 1
    /\ pc' = IF xapi THEN "s1" ELSE "s3"
    /\ caller' = who
    /\ account' = a
    /\ x_api' = xapi
    /\ max_rate_wait' = wait
    /\ attempt' = 0
    /\ posts' = <<>>
    /\ log' = <<>>
    /\ last' = NoCall
    /\ slept' = 0
    /\ delayed' = 0

\* an operation that ends without calling fetch_posts
NoFetchPosts(who, a) ==
    /\ now' = now
    /\ pc' = "idle"
    /\ caller' = who
    /\ account' = a
    /\ x_api' = FALSE
    /\ max_rate_wait' = 0
    /\ attempt' = 0
    /\ posts' = <<>>
    /\ log' = <<>>
    /\ last' = NoCall
    /\ slept' = 0
    /\ delayed' = 0

\* ------------------------------------------------------------------------
\* Persona generation and quality evaluation, as the fetchers see them
\* ------------------------------------------------------------------------
\* GrokAPI.generate_persona_profile returns None (no answer, invalid JSON),
\* the dict the model answered (which may be empty), or raises (the JSON
\* answer is not an object: persona.get fails)
PersonaOutcomes ==
    {[raised |-> TRUE, persona |-> NonePersona]}
    \cup {[raised |-> FALSE, persona |-> p] :
            p \in {NonePersona, EmptyPersona, ProfilePersona}}

\* GrokAPI.check_account_quality returns a dict with a score, or raises (a
\* background that is not a string reaches description.strip())
QualityOutcomes(up) ==
    {[raised |-> TRUE, score |-> 0]}
    \cup {[raised |-> FALSE, score |-> q] : q \in up.quality}

\* requests of check_account_quality: fetch_user_metrics, if given a client
MetricsCalls(xapi) == IF xapi THEN 1 ELSE 0

SourceOfMutAlwaysTwitter(ps) == "twitter"

\* posts[0]['id'].startswith('web_search_')
SourceOf(ps) == IF ps[1] = "web_search_" THEN "web_search" ELSE "twitter"

\* ------------------------------------------------------------------------
\* ingest_accounts.fetch_account_data
\* ------------------------------------------------------------------------
FetchResult(ps, persona, status, source) ==
    [posts |-> ps, persona |-> persona, status |-> status, source |-> source]

Returned(who, a, r) ==
    [by |-> who, account |-> a, posts |-> r.posts, persona |-> r.persona,
     status |-> r.status, source |-> r.source]

\* an exception left the operation: there is no return value
Raised(who, a) ==
    [by |-> who, account |-> a, posts |-> <<>>, persona |-> NonePersona,
     status |-> "exception", source |-> "unknown"]

NoResult == [by |-> "none", account |-> 0, posts |-> <<>>, persona |-> NonePersona,
             status |-> "none", source |-> "unknown"]

FailedMutSourced(ps) == FetchResult(<<>>, EmptyPersona, "failed", "twitter")

FailedMutKeepsPosts(ps) == FetchResult(ps, EmptyPersona, "failed", "unknown")

\* FetchResult(posts=[], persona={}, status=FetchStatus.FAILED, source="unknown")
Failed(ps) == FetchResult(<<>>, EmptyPersona, "failed", "unknown")

\* cached.get('source', 'unknown')
CachedSource(e) == IF e.source = "missing" THEN "unknown" ELSE e.source

CachedResultMutRefetched(e) ==
    FetchResult(e.posts, EmptyPersona, "cached", CachedSource(e))

\* the return of the cache branch
CachedResult(e) == FetchResult(e.posts, e.persona, "cached", CachedSource(e))

\* the part of fetch_account_data after fetch_posts returned ps, with the
\* outcomes po of generate_persona_profile and qo of check_account_quality
FetchAccountDataResult(ps, po, qo) ==
    IF ps = <<>> THEN Failed(ps)
    ELSE IF po.raised THEN Failed(ps)
    ELSE IF Truthy(po.persona) /\ qo.raised THEN Failed(ps)
    ELSE FetchResult(ps,
                     IF Truthy(po.persona) THEN WithScore(po.persona, qo.score)
                     ELSE po.persona,
                     "success", SourceOf(ps))

\* what process_accounts_batch keeps of a result
Tally(r) == [status |-> r.status, source |-> r.source]

\* the counters of process_accounts_batch that main looks at, from the
\* results of the accounts: total, failed_count, generated_count
Summary(results) ==
    [total |-> Len(results),
     failed |-> Cardinality({i \in 1..Len(results) : results[i].status = "failed"}),
     generated |-> Cardinality({i \in 1..Len(results) :
                                  results[i].source = "generated"})]

ExitMutIgnoresRatio(summary) == IF summary.failed > 0 THEN 1 ELSE 0

\* the end of main: sys.exit(1) if generated_data_ratio > 5.0 or
\* results['failed'] > 0, else sys.exit(0); the ratio is
\* generated_count / total * 100, and 0 when total is 0
ExitCode(summary) ==
    IF summary.total > 0
       /\ summary.generated * 100 > GENERATED_RATIO_THRESHOLD * summary.total
    THEN 1
    ELSE IF summary.failed > 0 THEN 1
    ELSE 0

\* main has not called sys.exit
NoExit == -1

\* no end of main is under study
NoExitCall == [summary |-> [total |-> 0, failed |-> 0, generated |-> 0],
               done |-> FALSE, code |-> NoExit]

NewBatch(force, xapi) ==
    [pc |-> "loop", i |-> 0, force_refresh |-> force, x_api |-> xapi,
     results |-> <<>>, touched |-> {}, exit |-> NoExit]

\* process_accounts_batch is called by main
BatchStart ==
    /\ process \in {"cli", "both"}
    /\ batch.pc # "loop"
    /\ pc = "idle"
    /\ \E force \in BOOLEAN, xapi \in BOOLEAN : batch' = NewBatch(force, xapi)
    /\ rate_limiter' = NewRateLimitManager
    /\ NoFetchPosts("none", 0)
    /\ request' = NoRequest
    /\ net_calls' = 0
    /\ quality_calls' = 0
    /\ result' = NoResult
    /\ UNCHANGED <<cache, session_state, env>>

\* what the cache check of fetch_account_data finds
CliFound(cached, force_refresh) ==
    IF force_refresh THEN "unread"
    ELSE IF cached.kind = "nonmapping" THEN "malformed"
    ELSE IF cached.kind = "none" THEN "miss"
    ELSE IF has_generated_posts(cached.posts) THEN "contaminated"
    ELSE "hit"

\* fetch_account_data up to the call of fetch_posts: the cache check and
\* the rate-limit wait
FetchAccountDataBegin ==
    /\ batch.pc = "loop"
    /\ pc = "idle"
    /\ batch.i < NumAccounts
    /\ request' = Request(TRUE, batch.force_refresh,
                           CliFound(cache[batch.i + 1], batch.force_refresh))
    /\ LET a == batch.i + 1
           cached == cache[a]
       IN  IF ~batch.force_refresh /\ cached.kind = "nonmapping"
           THEN \* cached.get raises AttributeError outside the try block
                /\ batch' = [batch EXCEPT !.pc = "crashed"]
                /\ result' = Raised("cli", a)
                /\ NoFetchPosts("cli", a)
                /\ net_calls' = 0
                /\ quality_calls' = 0
                /\ UNCHANGED <<cache, session_state, rate_limiter>>
           ELSE IF ~batch.force_refresh /\ cached.kind = "entry"
                   /\ ~has_generated_posts(cached.posts)
           THEN /\ batch' = [batch EXCEPT !.i = a,
                                 !.results = Append(@, Tally(CachedResult(cached)))]
                /\ result' = Returned("cli", a, CachedResult(cached))
                /\ NoFetchPosts("cli", a)
                /\ net_calls' = 0
                /\ quality_calls' = 0
                /\ UNCHANGED <<cache, session_state, rate_limiter>>
           ELSE /\ cache' = IF ~batch.force_refresh /\ cached.kind = "entry"
                            THEN [cache EXCEPT ![a] = NoFile]
                            ELSE cache
                /\ rate_limiter' = wait_if_needed(rate_limiter, WaitThreshold)
                /\ batch' = [batch EXCEPT !.touched = @ \cup {a}]
                /\ StartFetchPosts("cli", a, batch.x_api, DefaultMaxRateWait)
                /\ net_calls' = 0
                /\ quality_calls' = 0
                /\ UNCHANGED <<session_state, result>>
    /\ UNCHANGED env

\* fetch_account_data after fetch_posts returned, and the loop body of
\* process_accounts_batch that takes the result
FetchAccountDataEnd ==
    /\ pc = "ret"
    /\ caller = "cli"
    /\ \E po \in PersonaOutcomes, qo \in QualityOutcomes(upstream) :
          LET r == FetchAccountDataResult(posts, po, qo)
              evaluated == posts # <<>> /\ ~po.raised /\ Truthy(po.persona)
          IN  /\ result' = Returned("cli", account, r)
              /\ batch' = [batch EXCEPT !.i = account,
                                         !.results = Append(@, Tally(r))]
              /\ net_calls' = net_calls
                              + (IF evaluated THEN MetricsCalls(x_api) ELSE 0)
              /\ quality_calls' = IF evaluated THEN 1 ELSE 0
              /\ IF r.status = "success"
                 THEN cache' = [cache EXCEPT ![account] =
                                    Entry(r.posts, r.persona, r.source, now)]
                 ELSE UNCHANGED cache
    /\ rate_limiter' = decrement(rate_limiter)
    /\ pc' = "idle"
    /\ x_api' = FALSE
    /\ max_rate_wait' = 0
    /\ request' = NoRequest
    /\ UNCHANGED <<session_state, now, env, caller, account, attempt, posts, log,
                   last, slept, delayed>>

\* the for loop of process_accounts_batch is exhausted: the summary is
\* returned to main, which exits
BatchEnd ==
    /\ batch.pc = "loop"
    /\ pc = "idle"
    /\ batch.i = NumAccounts
    /\ batch' = [batch EXCEPT !.pc = "done",
                               !.exit = ExitCode(Summary(batch.results))]
    /\ UNCHANGED <<cache, session_state, now, env, fetchVars, rate_limiter, result>>

\* The batch run is interrupted (KeyboardInterrupt, which no handler of the
\* run catches): between two accounts, or inside the fetch in flight, whose
\* remaining steps are then never run and of which the requests made remain.
BatchAbort ==
    /\ batch.pc = "loop"
    /\ batch' = [batch EXCEPT !.pc = "aborted"]
    /\ NoFetchPosts(caller, account)
    /\ request' = NoRequest
    /\ UNCHANGED <<cache, session_state, env, net_calls, quality_calls, rate_limiter,
                   result>>

\* ------------------------------------------------------------------------
\* app.fetch_and_analyze_posts
\* ------------------------------------------------------------------------
EnsureMutAlwaysEvaluates(persona, qo) ==
    IF qo.raised THEN [added |-> FALSE, evaluated |-> TRUE, persona |-> persona]
    ELSE [added |-> TRUE, evaluated |-> TRUE, persona |-> WithScore(persona, qo.score)]

\* app.ensure_quality_score: whether it attached a score, whether it called
\* check_account_quality (whose outcome is qo), and the persona afterwards
ensure_quality_score(persona, qo) ==
    IF ~Truthy(persona) \/ persona.scored
    THEN [added |-> FALSE, evaluated |-> FALSE, persona |-> persona]
    ELSE IF qo.raised
    THEN [added |-> FALSE, evaluated |-> TRUE, persona |-> persona]
    ELSE [added |-> TRUE, evaluated |-> TRUE, persona |-> WithScore(persona, qo.score)]

\* a lookup that reads the file before the session state
UiLookupMutFileFirst(a, use_cache, force_refresh) ==
    IF use_cache /\ ~force_refresh /\ cache[a].kind = "entry"
       /\ ~has_generated_posts(cache[a].posts)
    THEN [way |-> "file", data |-> cache[a], session |-> cache[a], file |-> cache[a],
          found |-> "hit"]
    ELSE [way |-> "fetch", data |-> NoFile, session |-> session_state[a],
          file |-> cache[a], found |-> "unread"]

\* The session check and the file check of fetch_and_analyze_posts: which
\* way the call goes, the entry it loaded, and both tiers afterwards.
UiLookup(a, use_cache, force_refresh) ==
    LET sess == session_state[a]
        gen == sess.kind = "entry" /\ has_generated_posts(sess.posts)
        \* del st.session_state[session_key]; delete_cache(cache_key)
        sess1 == IF ~force_refresh /\ gen THEN NoFile ELSE sess
        file1 == IF ~force_refresh /\ gen THEN NoFile ELSE cache[a]
        Way(w, d, s2, f2, fnd) ==
            [way |-> w, data |-> d, session |-> s2, file |-> f2, found |-> fnd]
    IN  IF ~force_refresh /\ sess.kind = "nonmapping"
        THEN Way("raise", sess, sess, cache[a], "malformed")
        ELSE IF ~force_refresh /\ sess.kind = "entry" /\ ~gen
        THEN Way("session", sess, sess, cache[a], "hit")
        ELSE IF use_cache /\ ~force_refresh /\ file1.kind = "nonmapping"
        THEN \* st.session_state[session_key] = cached, then cached.get raises
             Way("raise", file1, file1, file1, "malformed")
        ELSE IF use_cache /\ ~force_refresh /\ file1.kind = "entry"
        THEN IF has_generated_posts(file1.posts)
             THEN Way("fetch", NoFile, NoFile, NoFile, "contaminated")
             ELSE Way("file", file1, file1, file1, "hit")
        ELSE Way("fetch", NoFile, sess1, file1,
                 IF force_refresh THEN "unread"
                 ELSE IF gen THEN "contaminated"
                 ELSE IF use_cache THEN "miss" ELSE "unread")

\* max_rate_wait_seconds=UI_MAX_RATE_WAIT_SECONDS if x_api else 900
UiMaxRateWait(xapi) == IF xapi THEN UI_MAX_RATE_WAIT_SECONDS ELSE DefaultMaxRateWait

\* a call whose quality backfill writes the session state only
UiFetchMutOverlayOnly(a, use_cache, force_refresh, xapi, qo) ==
    LET look == UiLookup(a, use_cache, force_refresh)
        e == ensure_quality_score(look.data.persona, qo)
        data == [look.data EXCEPT !.persona = e.persona]
    IN  /\ request' = Request(use_cache, force_refresh, look.found)
        /\ cache' = [cache EXCEPT ![a] = look.file]
        /\ IF look.way = "raise"
           THEN /\ session_state' = [session_state EXCEPT ![a] = look.session]
                /\ result' = Raised("ui", a)
                /\ NoFetchPosts("ui", a)
                /\ net_calls' = 0
                /\ quality_calls' = 0
           ELSE IF look.way \in {"session", "file"}
           THEN /\ session_state' = [session_state EXCEPT ![a] =
                                        IF e.added THEN data ELSE look.session]
                /\ result' = Returned("ui", a,
                                FetchResult(look.data.posts, e.persona, look.way,
                                            CachedSource(look.data)))
                /\ NoFetchPosts("ui", a)
                /\ net_calls' = IF e.evaluated THEN MetricsCalls(xapi) ELSE 0
                /\ quality_calls' = IF e.evaluated THEN 1 ELSE 0
           ELSE /\ session_state' = [session_state EXCEPT ![a] = look.session]
                /\ StartFetchPosts("ui", a, xapi, UiMaxRateWait(xapi))
                /\ net_calls' = 0
                /\ quality_calls' = 0
                /\ UNCHANGED result

\* fetch_and_analyze_posts(account a, use_cache, x_api, force_refresh) up to
\* the call of fetch_posts; on a cache hit the whole call, with the quality
\* backfill, qo being the outcome of check_account_quality
UiFetch(a, use_cache, force_refresh, xapi, qo) ==
    LET look == UiLookup(a, use_cache, force_refresh)
        e == ensure_quality_score(look.data.persona, qo)
        data == [look.data EXCEPT !.persona = e.persona]
    IN  /\ request' = Request(use_cache, force_refresh, look.found)
        /\ IF look.way = "raise"
           THEN /\ session_state' = [session_state EXCEPT ![a] = look.session]
                /\ cache' = [cache EXCEPT ![a] = look.file]
                /\ result' = Raised("ui", a)
                /\ NoFetchPosts("ui", a)
                /\ net_calls' = 0
                /\ quality_calls' = 0
           ELSE IF look.way \in {"session", "file"}
           THEN /\ session_state' = [session_state EXCEPT ![a] =
                                        IF e.added THEN data ELSE look.session]
                /\ cache' = [cache EXCEPT ![a] =
                                IF e.added THEN data ELSE look.file]
                /\ result' = Returned("ui", a,
                                FetchResult(look.data.posts, e.persona, look.way,
                                            CachedSource(look.data)))
                /\ NoFetchPosts("ui", a)
                /\ net_calls' = IF e.evaluated THEN MetricsCalls(xapi) ELSE 0
                /\ quality_calls' = IF e.evaluated THEN 1 ELSE 0
           ELSE /\ session_state' = [session_state EXCEPT ![a] = look.session]
                /\ cache' = [cache EXCEPT ![a] = look.file]
                /\ StartFetchPosts("ui", a, xapi, UiMaxRateWait(xapi))
                /\ net_calls' = 0
                /\ quality_calls' = 0
                /\ UNCHANGED result

\* a call of fetch_and_analyze_posts by the UI
UiFetchBegin ==
    /\ process \in {"ui", "both"}
    /\ pc = "idle"
    /\ \E a \in Accounts, use_cache \in BOOLEAN, force_refresh \in BOOLEAN,
          xapi \in BOOLEAN, qo \in QualityOutcomes(upstream) :
          UiFetch(a, use_cache, force_refresh, xapi, qo)
    /\ UNCHANGED <<env, rate_limiter, batch>>

\* what fetch_and_analyze_posts returns when it has no posts to return:
\* return [], {}
UiNothing(status) == FetchResult(<<>>, EmptyPersona, status, "unknown")

\* persona_profile or {}
OrEmpty(persona) == IF Truthy(persona) THEN persona ELSE EmptyPersona

\* fetch_and_analyze_posts after the call of fetch_posts
UiFetchEnd ==
    /\ pc \in {"ret", "raised"}
    /\ caller = "ui"
    /\ \E po \in PersonaOutcomes, qo \in QualityOutcomes(upstream) :
          LET e == ensure_quality_score(po.persona, qo)
              data == Entry(posts, OrEmpty(e.persona), SourceOf(posts), now)
          IN  IF pc = "raised"
              THEN \* except APIConnectionError: the rate-limit warning
                   /\ result' = Returned("ui", account, UiNothing("rate_limited"))
                   /\ UNCHANGED <<cache, session_state, net_calls, quality_calls>>
              ELSE IF posts = <<>>
              THEN /\ result' = Returned("ui", account, UiNothing("no_posts"))
                   /\ UNCHANGED <<cache, session_state, net_calls, quality_calls>>
              ELSE IF has_generated_posts(posts)
              THEN /\ result' = Returned("ui", account, UiNothing("generated"))
                   /\ cache' = [cache EXCEPT ![account] = NoFile]
                   /\ UNCHANGED <<session_state, net_calls, quality_calls>>
              ELSE IF po.raised
              THEN /\ result' = Raised("ui", account)
                   /\ UNCHANGED <<cache, session_state, net_calls, quality_calls>>
              ELSE /\ result' = Returned("ui", account,
                                   FetchResult(posts, e.persona, "fetched",
                                               SourceOf(posts)))
                   /\ cache' = [cache EXCEPT ![account] = data]
                   /\ session_state' = [session_state EXCEPT ![account] = data]
                   /\ net_calls' = net_calls
                                   + (IF e.evaluated THEN MetricsCalls(x_api) ELSE 0)
                   /\ quality_calls' = IF e.evaluated THEN 1 ELSE 0
    /\ pc' = "idle"
    /\ x_api' = FALSE
    /\ max_rate_wait' = 0
    /\ request' = NoRequest
    /\ UNCHANGED <<now, env, caller, account, attempt, posts, log, last, slept,
                   delayed, rate_limiter, batch>>

\* no backfill is between its read and its write
NoBackfillCall == [active |-> FALSE, account |-> 0, entry |-> NoFile]

\* The file-cache branch of fetch_and_analyze_posts while the batch run of
\* the CLI goes on in another process: load_cache returned a valid entry
\* whose persona lacks quality_score, the entry is in the session overlay and
\* ensure_quality_score is calling check_account_quality.
UiBackfillRead ==
    /\ process = "both"
    /\ ~ui_backfill.active
    /\ \E a \in Accounts :
          /\ session_state[a].kind = "none"
          /\ cache[a].kind = "entry"
          /\ ~has_generated_posts(cache[a].posts)
          /\ Truthy(cache[a].persona) /\ ~cache[a].persona.scored
          /\ session_state' = [session_state EXCEPT ![a] = cache[a]]
          /\ ui_backfill' = [active |-> TRUE, account |-> a, entry |-> cache[a]]
    /\ UNCHANGED <<cache, now, upstream, horizon, process, wait_call, exit_call,
                   sampler_call, unit_call, fetchVars, rate_limiter, batch, result>>

\* check_account_quality has answered: the score is attached to the entry
\* that was read, and cache_data writes it over the file
UiBackfillWrite ==
    /\ ui_backfill.active
    /\ \E qo \in QualityOutcomes(upstream) :
          LET a == ui_backfill.account
              e == ensure_quality_score(ui_backfill.entry.persona, qo)
              data == [ui_backfill.entry EXCEPT !.persona = e.persona]
          IN  IF e.added
              THEN /\ session_state' = [session_state EXCEPT ![a] = data]
                   /\ cache' = [cache EXCEPT ![a] = data]
              ELSE UNCHANGED <<cache, session_state>>
    /\ ui_backfill' = [ui_backfill EXCEPT !.active = FALSE]
    /\ UNCHANGED <<now, upstream, horizon, process, wait_call, exit_call, sampler_call,
                   unit_call, fetchVars, rate_limiter, batch, result>>

\* ------------------------------------------------------------------------
\* The system: the files a run starts from, then the batch run of the CLI
\* and the fetches of the UI, one fetch in flight at a time
\* ------------------------------------------------------------------------
\* the files on disk before the processes start, and nothing in flight
Start(files) ==
    /\ cache \in [Accounts -> files]
    /\ session_state = [a \in Accounts |-> NoFile]
    /\ now = 0
    /\ pc = "idle"
    /\ caller = "none"
    /\ account = 0
    /\ request = NoRequest
    /\ x_api = FALSE
    /\ max_rate_wait = 0
    /\ attempt = 0
    /\ posts = <<>>
    /\ log = <<>>
    /\ last = NoCall
    /\ net_calls = 0
    /\ quality_calls = 0
    /\ slept = 0
    /\ delayed = 0
    /\ rate_limiter = NewRateLimitManager
    /\ batch = [pc |-> "off", i |-> 0, force_refresh |-> FALSE, x_api |-> FALSE,
                results |-> <<>>, touched |-> {}, exit |-> NoExit]
    /\ result = NoResult

\* A batch run of the CLI, or a session of the UI, over the files the other
\* left: several fetches, the upstream answering, answering nothing or
\* limiting the rate.
Init ==
    /\ Start(SeedFiles)
    /\ wait_call = NoWaitCall
    /\ exit_call = NoExitCall
    /\ ui_backfill = NoBackfillCall
    /\ sampler_call = NoSamplerCall
    /\ unit_call = NoUnitCall
    /\ upstream = PlainUpstream
    /\ horizon = MaxFetches
    /\ process \in {"cli", "ui"}

\* One fetch under every upstream condition, of an account without a file.
InitOneFetch ==
    /\ Start({NoFile, Entry(<<"tweet">>, WithScore(ProfilePersona, 80), "twitter", 0)})
    /\ upstream = AnyUpstream
    /\ horizon = 1
    /\ process \in {"cli", "ui"}
    /\ wait_call = NoWaitCall
    /\ exit_call = NoExitCall
    /\ ui_backfill = NoBackfillCall
    /\ sampler_call = NoSamplerCall
    /\ unit_call = NoUnitCall

\* ------------------------------------------------------------------------
\* _wait_for_rate_limit_reset by itself, over its arguments
\* ------------------------------------------------------------------------
\* max_wait_seconds: none allowed, one and two seconds, the default
MaxWaits == {0, 10, 20, DefaultMaxRateWait}

WaitCalls ==
    {[hdr |-> h, max_wait |-> m, attempt |-> n, jitter |-> j, done |-> FALSE,
      ok |-> FALSE, slept |-> 0] :
        h \in Headers \cup {ResetIn(0), ResetIn(5)}, m \in MaxWaits,
        n \in 0..MaxAttempt, j \in 0..(3 * Pow2(MaxAttempt))}

InitWait ==
    /\ Start({NoFile})
    /\ upstream = PlainUpstream
    /\ horizon = 0
    /\ process = "none"
    /\ wait_call \in {w \in WaitCalls : w.jitter \in JitterRange(w.attempt)}
    /\ exit_call = NoExitCall
    /\ ui_backfill = NoBackfillCall
    /\ sampler_call = NoSamplerCall
    /\ unit_call = NoUnitCall

\* the call returns
WaitReturns ==
    /\ ~wait_call.done
    /\ LET w == WaitForRateLimitReset(wait_call.hdr, wait_call.max_wait,
                                      wait_call.attempt, wait_call.jitter)
       IN  wait_call' = [wait_call EXCEPT !.done = TRUE, !.ok = w.ok,
                                          !.slept = w.slept]
    /\ UNCHANGED <<cache, session_state, now, upstream, horizon, process, exit_call,
                   ui_backfill, sampler_call, unit_call, fetchVars, rate_limiter,
                   batch, result>>

NextWait == WaitReturns

\* ------------------------------------------------------------------------
\* The end of main by itself, over the summary of a batch run
\* ------------------------------------------------------------------------
\* sizes of the account list: around the 5% threshold and small
BatchSizes == {1, 2, 3, 20, 21, 40, 41, 60}

ExitCalls ==
    {[summary |-> [total |-> t, failed |-> f, generated |-> g], done |-> FALSE,
      code |-> NoExit] :
        t \in BatchSizes, f \in 0..MaxCount, g \in 0..MaxCount}

\* a generated-source result is a cached one, so it is not a failed one
InitExit ==
    /\ Start({NoFile})
    /\ upstream = PlainUpstream
    /\ horizon = 0
    /\ process = "none"
    /\ wait_call = NoWaitCall
    /\ exit_call \in {c \in ExitCalls :
                         c.summary.failed + c.summary.generated <= c.summary.total}
    /\ ui_backfill = NoBackfillCall
    /\ sampler_call = NoSamplerCall
    /\ unit_call = NoUnitCall

\* main exits
MainExits ==
    /\ ~exit_call.done
    /\ exit_call' = [exit_call EXCEPT !.done = TRUE,
                                      !.code = ExitCode(exit_call.summary)]
    /\ UNCHANGED <<cache, session_state, now, upstream, horizon, process, wait_call,
                   ui_backfill, sampler_call, unit_call, fetchVars, rate_limiter,
                   batch, result>>

NextExit == MainExits

\* ------------------------------------------------------------------------
\* The UI and the CLI at once on the same cache directory
\* ------------------------------------------------------------------------
\* The batch run re-fetches accounts whose files hold a persona without
\* quality_score while the UI loads them.
InitBoth ==
    /\ Start({Entry(<<"tweet">>, ProfilePersona, "twitter", 0)})
    /\ upstream = PlainUpstream
    /\ horizon = MaxFetches
    /\ process = "both"
    /\ wait_call = NoWaitCall
    /\ exit_call = NoExitCall
    /\ ui_backfill = NoBackfillCall
    /\ sampler_call = NoSamplerCall
    /\ unit_call = NoUnitCall

NextBoth ==
    \/ BatchStart
    \/ FetchAccountDataBegin
    \/ FetchAccountDataEnd
    \/ BatchEnd
    \/ Strategy1
    \/ Strategy2
    \/ Strategy3
    \/ UiBackfillRead
    \/ UiBackfillWrite

\* ------------------------------------------------------------------------
\* _deduplicate_accounts by itself, over lists of discovered candidates
\* ------------------------------------------------------------------------
\* user1, @user1, USER1, " user1 ", user2, @@user1, no handle, "@", "u@"
Handles ==
    {<<"u">>, <<"@", "u">>, <<"U">>, <<" ", "u", " ">>, <<"v">>, <<"@", "@", "u">>,
     <<>>, <<"@">>, <<"u", "@">>}

\* the candidates of a discovery with the handles hs, in order
Discovered(hs) == [i \in 1..Len(hs) |-> [handle |-> hs[i], tag |-> i]]

\* ["user1", "@user1", "USER1", " user1 "]
ExampleHandles == <<<<"u">>, <<"@", "u">>, <<"U">>, <<" ", "u", " ">>>>

\* the call of _deduplicate_accounts on the candidates with the handles hs
DedupCall(hs) ==
    [op |-> "dedup", accounts |-> Discovered(hs), done |-> FALSE, result |-> <<>>,
     again_done |-> FALSE, again |-> <<>>]

\* the handle lists explored: the example and every list shorter than MaxPool
HandleLists == {ExampleHandles} \cup UNION {[1..n -> Handles] : n \in 0..(MaxPool - 1)}

InitDedup ==
    /\ Start({NoFile})
    /\ upstream = PlainUpstream
    /\ horizon = 0
    /\ process = "none"
    /\ wait_call = NoWaitCall
    /\ exit_call = NoExitCall
    /\ ui_backfill = NoBackfillCall
    /\ \E hs \in HandleLists : sampler_call = DedupCall(hs)
    /\ unit_call = NoUnitCall

\* _deduplicate_accounts returns
Deduplicates ==
    /\ sampler_call.op = "dedup"
    /\ ~sampler_call.done
    /\ sampler_call' = [sampler_call EXCEPT
                           !.done = TRUE,
                           !.result = deduplicate_accounts(sampler_call.accounts)]
    /\ UNCHANGED <<cache, session_state, now, upstream, horizon, process, wait_call,
                   exit_call, ui_backfill, unit_call, fetchVars, rate_limiter, batch,
                   result>>

\* _deduplicate_accounts returns from a call on the list it returned
DeduplicatesAgain ==
    /\ sampler_call.op = "dedup"
    /\ sampler_call.done
    /\ ~sampler_call.again_done
    /\ sampler_call' = [sampler_call EXCEPT
                           !.again_done = TRUE,
                           !.again = deduplicate_accounts(sampler_call.result)]
    /\ UNCHANGED <<cache, session_state, now, upstream, horizon, process, wait_call,
                   exit_call, ui_backfill, unit_call, fetchVars, rate_limiter, batch,
                   result>>

NextDedup == Deduplicates \/ DeduplicatesAgain

\* ------------------------------------------------------------------------
\* The sampling strategies by themselves, over deduplicated, enriched pools
\* ------------------------------------------------------------------------
\* what enrich_account_attributes can give a candidate
CandidateKinds ==
    {[followers_count |-> 50, region |-> "JP", language |-> "ja",
      dominant_sentiment |-> "neutral"],
     [followers_count |-> 500, region |-> "US", language |-> "en",
      dominant_sentiment |-> "positive"],
     [followers_count |-> 5000, region |-> "JP", language |-> "ja",
      dominant_sentiment |-> "neutral"],
     [followers_count |-> 5000, region |-> "unknown", language |-> "en",
      dominant_sentiment |-> "negative"]}

\* the candidate user<i> of a pool; the handles of a deduplicated pool differ
Candidate(i, kind) ==
    [handle |-> i, followers_count |-> kind.followers_count, region |-> kind.region,
     language |-> kind.language, dominant_sentiment |-> kind.dominant_sentiment]

\* five candidates with the follower buckets micro, small, medium, small,
\* medium
ExamplePool ==
    <<Candidate(1, [followers_count |-> 50, region |-> "JP", language |-> "ja",
                    dominant_sentiment |-> "neutral"]),
      Candidate(2, [followers_count |-> 500, region |-> "JP", language |-> "ja",
                    dominant_sentiment |-> "positive"]),
      Candidate(3, [followers_count |-> 5000, region |-> "JP", language |-> "ja",
                    dominant_sentiment |-> "neutral"]),
      Candidate(4, [followers_count |-> 500, region |-> "US", language |-> "en",
                    dominant_sentiment |-> "neutral"]),
      Candidate(5, [followers_count |-> 5000, region |-> "unknown", language |-> "en",
                    dominant_sentiment |-> "negative"])>>

Pools ==
    {ExamplePool} \cup
    UNION {{[i \in 1..n |-> Candidate(i, kinds[i])] : kinds \in [1..n -> CandidateKinds]} :
             n \in 0..MaxPool}

\* num_samples, max_total, max_results
SampleSizes == 0..(MaxPool + 1)

\* strata_attributes of direct calls
StrataChoices == {{"followers"}, {"followers", "region"}}

\* the quotas of test_quota_sampling, and quotas on the region alone
TestQuotas ==
    [followers |-> [small |-> 1, medium |-> 1, large |-> 1],
     region |-> [JP |-> 2, US |-> 1],
     sentiment |-> [positive |-> 1, neutral |-> 1, negative |-> 1]]

RegionQuotas == [region |-> [JP |-> 1, unknown |-> 2]]

QuotaChoices == {TestQuotas, RegionQuotas}

\* the calls explored on the pool p with the size n: stratified_sampling and
\* quota_sampling directly, and the sampling step of discover_accounts_hybrid
SamplerCalls(p, n) ==
    {[op |-> "stratified", accounts |-> p, num |-> n, strata_attributes |-> a,
      done |-> FALSE, raised |-> FALSE, result |-> <<>>] : a \in StrataChoices}
    \cup
    {[op |-> "quota", accounts |-> p, num |-> n, quotas |-> q,
      done |-> FALSE, raised |-> FALSE, result |-> <<>>] : q \in QuotaChoices}
    \cup
    {[op |-> "hybrid", accounts |-> p, num |-> n, sampling_method |-> m,
      done |-> FALSE, raised |-> FALSE, result |-> <<>>] :
        m \in {"stratified", "quota", "random"}}

InitSampling ==
    /\ Start({NoFile})
    /\ upstream = PlainUpstream
    /\ horizon = 0
    /\ process = "none"
    /\ wait_call = NoWaitCall
    /\ exit_call = NoExitCall
    /\ ui_backfill = NoBackfillCall
    /\ \E p \in Pools, n \in SampleSizes : sampler_call \in SamplerCalls(p, n)
    /\ unit_call = NoUnitCall

\* the call ends: it returns one of the lists it can return, or it raises
\* when there is none
SamplerEnds(outcomes) ==
    /\ \/ /\ outcomes = {}
          /\ sampler_call' = [sampler_call EXCEPT !.done = TRUE, !.raised = TRUE]
       \/ \E r \in outcomes :
             sampler_call' = [sampler_call EXCEPT !.done = TRUE, !.result = r]
    /\ UNCHANGED <<cache, session_state, now, upstream, horizon, process, wait_call,
                   exit_call, ui_backfill, unit_call, fetchVars, rate_limiter, batch,
                   result>>

\* stratified_sampling returns
StratifiedReturns ==
    /\ sampler_call.op = "stratified"
    /\ ~sampler_call.done
    /\ SamplerEnds(stratified_sampling(sampler_call.accounts, sampler_call.num,
                                       sampler_call.strata_attributes))

\* quota_sampling returns
QuotaReturns ==
    /\ sampler_call.op = "quota"
    /\ ~sampler_call.done
    /\ SamplerEnds(quota_sampling(sampler_call.accounts, sampler_call.quotas,
                                  sampler_call.num))

\* the sampling step of discover_accounts_hybrid is over
HybridSampled ==
    /\ sampler_call.op = "hybrid"
    /\ ~sampler_call.done
    /\ SamplerEnds(SampleByMethod(sampler_call.sampling_method, sampler_call.accounts,
                                  sampler_call.num))

NextSampling == StratifiedReturns \/ QuotaReturns \/ HybridSampled

\* ------------------------------------------------------------------------
\* check_account_quality by itself, over metrics and account information
\* ------------------------------------------------------------------------
FollowerCounts == {10, 100, 999, 1000, 10000}
TweetCounts == {0, 49, 50, 1000}

\* last_tweet_at and its age in days
LastTweets ==
    {[last_tweet_at |-> "none", days_inactive |-> 0],
     [last_tweet_at |-> "bad", days_inactive |-> 0]}
    \cup {[last_tweet_at |-> "date", days_inactive |-> d] : d \in {0, 90, 180, 181}}

\* what fetch_user_metrics can come to
XMetrics ==
    {NoMetrics}
    \cup {Metrics(f, t, l.last_tweet_at, l.days_inactive) :
            f \in FollowerCounts, t \in TweetCounts, l \in LastTweets}

\* public_metrics of account_info
PublicMetrics ==
    {NoMetrics} \cup {Metrics(f, t, "none", 0) : f \in {10, 10000}, t \in {49, 1000}}

\* account_info: confidence in hundredths, whether the description is
\* missing or shorter than 20 characters, the length of the handle
AccountInfos ==
    [public_metrics : PublicMetrics, confidence : {50, 69, 70, 80, 100},
     description_short : BOOLEAN, handle_len : {2, 3, 15, 16}]

NoQualityResult == [passed |-> FALSE, score |-> 0]

InitQuality ==
    /\ Start({NoFile})
    /\ upstream = PlainUpstream
    /\ horizon = 0
    /\ process = "none"
    /\ wait_call = NoWaitCall
    /\ exit_call = NoExitCall
    /\ ui_backfill = NoBackfillCall
    /\ sampler_call = NoSamplerCall
    /\ \E x \in XMetrics, info \in AccountInfos :
          unit_call = [op |-> "quality", x_metrics |-> x, account_info |-> info,
                       done |-> FALSE, result |-> NoQualityResult]

\* check_account_quality returns
QualityReturns ==
    /\ unit_call.op = "quality"
    /\ ~unit_call.done
    /\ unit_call' = [unit_call EXCEPT
                        !.done = TRUE,
                        !.result = check_account_quality(unit_call.x_metrics,
                                                         unit_call.account_info)]
    /\ UNCHANGED <<cache, session_state, now, upstream, horizon, process, wait_call,
                   exit_call, ui_backfill, sampler_call, fetchVars, rate_limiter,
                   batch, result>>

NextQuality == QualityReturns

\* ------------------------------------------------------------------------
\* _calculate_entropy and calculate_diversity_metrics by themselves
\* ------------------------------------------------------------------------
\* the Counters of k distinct values, of at most 2^MaxLog values in all, on
\* which the computation is exact
Counters(k) ==
    {c \in [1..k -> {Pow2(e) : e \in 0..MaxLog}] :
        IsPow2(SumSeq(c)) /\ SumSeq(c) <= Pow2(MaxLog)}

AnyCounter == {<<>>} \cup Counters(1) \cup Counters(2) \cup Counters(4)

\* the Counters of one or two values
FewValues == {<<>>} \cup Counters(1) \cup Counters(2)

\* the Counters of n values in all: the accounts are n
OfTotal(counters, n) == {c \in counters : SumSeq(c) = n}

\* metrics before the loop over the attributes
NoDiversityMetrics ==
    [entropies |-> <<>>, has_overall |-> FALSE, overall_diversity |-> 0]

\* 'attributes': those of discover_accounts_hybrid, one of them, an
\* attribute the function does not know, none
AttributeLists ==
    {<<"followers", "region", "language", "sentiment">>, <<"followers">>,
     <<"age">>, <<>>}

InitEntropy ==
    /\ Start({NoFile})
    /\ upstream = PlainUpstream
    /\ horizon = 0
    /\ process = "none"
    /\ wait_call = NoWaitCall
    /\ exit_call = NoExitCall
    /\ ui_backfill = NoBackfillCall
    /\ sampler_call = NoSamplerCall
    /\ \/ \E c \in AnyCounter :
             unit_call = [op |-> "entropy", counts |-> c, done |-> FALSE, result |-> 0]
       \/ \E n \in {SumSeq(c) : c \in AnyCounter}, attributes \in AttributeLists :
          \E f \in OfTotal(AnyCounter, n), r \in OfTotal(AnyCounter, n),
             l \in OfTotal(FewValues, n), s \in OfTotal(FewValues, n) :
             unit_call = [op |-> "metrics",
                          counters |-> [followers |-> f, region |-> r,
                                        language |-> l, sentiment |-> s],
                          attributes |-> attributes, done |-> FALSE,
                          result |-> NoDiversityMetrics]

\* _calculate_entropy returns
EntropyReturns ==
    /\ unit_call.op = "entropy"
    /\ ~unit_call.done
    /\ unit_call' = [unit_call EXCEPT !.done = TRUE,
                                      !.result = calculate_entropy(unit_call.counts)]
    /\ UNCHANGED <<cache, session_state, now, upstream, horizon, process, wait_call,
                   exit_call, ui_backfill, sampler_call, fetchVars, rate_limiter,
                   batch, result>>

\* calculate_diversity_metrics returns
MetricsReturns ==
    /\ unit_call.op = "metrics"
    /\ ~unit_call.done
    /\ unit_call' = [unit_call EXCEPT
                        !.done = TRUE,
                        !.result = calculate_diversity_metrics(unit_call.counters,
                                                               unit_call.attributes)]
    /\ UNCHANGED <<cache, session_state, now, upstream, horizon, process, wait_call,
                   exit_call, ui_backfill, sampler_call, fetchVars, rate_limiter,
                   batch, result>>

NextEntropy == EntropyReturns \/ MetricsReturns

\* ------------------------------------------------------------------------
\* read_accounts_from_file and the account list of main by themselves
\* ------------------------------------------------------------------------
\* the texts of a row: handles with and without '@' and blanks, a comment
\* line, a blank line, a missing cell
RowTexts ==
    {<<"u">>, <<"@", "u">>, <<" ", "u", " ">>, <<"v">>, <<"#", "u">>, <<" ">>, <<>>}

TxtRows == {[text |-> t, source |-> NaN] : t \in RowTexts}

CsvRows == {[text |-> t, source |-> s] : t \in RowTexts \cup {NaN}, s \in {NaN, <<"grok_keyword">>}}

\* the files of up to n rows
TxtFiles(n) ==
    {[exists |-> TRUE, csv |-> FALSE, column |-> FALSE, has_source |-> FALSE, rows |-> r] :
        r \in [1..n -> TxtRows]}

CsvFiles(n) ==
    {[exists |-> TRUE, csv |-> TRUE, column |-> TRUE, has_source |-> h, rows |-> r] :
        h \in BOOLEAN, r \in [1..n -> CsvRows]}

\* a path that does not exist, a CSV file without an account column
OtherFiles ==
    {[exists |-> FALSE, csv |-> FALSE, column |-> FALSE, has_source |-> FALSE, rows |-> <<>>],
     [exists |-> TRUE, csv |-> TRUE, column |-> FALSE, has_source |-> FALSE,
      rows |-> <<[text |-> <<"u">>, source |-> NaN]>>]}

ReadCall(file, with_metadata) ==
    [op |-> "read", file |-> file, with_metadata |-> with_metadata, done |-> FALSE,
     result |-> <<>>, in_main |-> FALSE, accounts |-> <<>>]

InitRead ==
    /\ Start({NoFile})
    /\ upstream = PlainUpstream
    /\ horizon = 0
    /\ process = "none"
    /\ wait_call = NoWaitCall
    /\ exit_call = NoExitCall
    /\ ui_backfill = NoBackfillCall
    /\ sampler_call = NoSamplerCall
    /\ \E n \in 0..(MaxPool - 2), with_metadata \in BOOLEAN :
          \E file \in TxtFiles(n) \cup CsvFiles(n) \cup OtherFiles :
             unit_call = ReadCall(file, with_metadata)

\* read_accounts_from_file returns
ReadReturns ==
    /\ unit_call.op = "read"
    /\ ~unit_call.done
    /\ unit_call' = [unit_call EXCEPT
                        !.done = TRUE,
                        !.result = read_accounts_from_file(unit_call.file,
                                                           unit_call.with_metadata)]
    /\ UNCHANGED <<cache, session_state, now, upstream, horizon, process, wait_call,
                   exit_call, ui_backfill, sampler_call, fetchVars, rate_limiter,
                   batch, result>>

\* main, which read the file with its metadata, takes the handles for
\* process_accounts_batch
MainTakesAccounts ==
    /\ unit_call.op = "read"
    /\ unit_call.done
    /\ unit_call.with_metadata
    /\ ~unit_call.in_main
    /\ unit_call' = [unit_call EXCEPT
                        !.in_main = TRUE,
                        !.accounts = MainAccounts(unit_call.result)]
    /\ UNCHANGED <<cache, session_state, now, upstream, horizon, process, wait_call,
                   exit_call, ui_backfill, sampler_call, fetchVars, rate_limiter,
                   batch, result>>

NextRead == ReadReturns \/ MainTakesAccounts

\* ------------------------------------------------------------------------
\* RateLimitManager by itself
\* ------------------------------------------------------------------------
\* A manager is constructed and called MaxCalls times: calls is the number
\* of calls made, made the latest of them, before the manager as that call
\* found it, elapsed the time that passed outside the manager (was_elapsed:
\* before the call), max_wait the
\* longest wait the caller of the latest wait_if_needed would put up with and
\* threshold its argument.
LimiterCall(calls, made, before, elapsed, max_wait, threshold, has_reset) ==
    [op |-> "limiter", calls |-> calls, made |-> made, before |-> before,
     elapsed |-> elapsed, max_wait |-> max_wait, threshold |-> threshold,
     has_reset |-> has_reset, was_elapsed |-> IF calls = 0 THEN 0 ELSE unit_call.elapsed]

\* the headers observed: none, one or both of the two, the budget spent or
\* not, the reset ahead or already past
ObservedHeaders ==
    {LimitHeaders(hr, r, hs, d) :
        hr \in BOOLEAN, r \in {0, WaitThreshold, 10}, hs \in BOOLEAN, d \in {-100, 600}}

\* the waits a caller would put up with: none, a minute, the default
CallerMaxWaits == {0, 600, DefaultMaxRateWait}

InitLimiter ==
    /\ Start({NoFile})
    /\ upstream = PlainUpstream
    /\ horizon = 0
    /\ process = "none"
    /\ wait_call = NoWaitCall
    /\ exit_call = NoExitCall
    /\ ui_backfill = NoBackfillCall
    /\ sampler_call = NoSamplerCall
    /\ unit_call = LimiterCall(0, "none", NewRateLimitManager, 0, 0, WaitThreshold, FALSE)

\* the variables no call of the manager changes
limiterRest ==
    <<cache, session_state, now, upstream, horizon, process, wait_call, exit_call,
      ui_backfill, sampler_call, fetchVars, batch, result>>

LimiterStep(made, rl, elapsed, max_wait, threshold, has_reset) ==
    /\ unit_call.op = "limiter"
    /\ unit_call.calls < MaxCalls
    /\ rate_limiter' = rl
    /\ unit_call' = LimiterCall(unit_call.calls + 1, made, rate_limiter, elapsed,
                                max_wait, threshold, has_reset)
    /\ UNCHANGED limiterRest

\* rate_limiter.decrement()
Decrements ==
    LimiterStep("decrement", decrement(rate_limiter), unit_call.elapsed, 0,
                WaitThreshold, FALSE)

\* rate_limiter.wait_if_needed(), by a caller that would wait max_wait
WaitsIfNeeded ==
    \E max_wait \in CallerMaxWaits, threshold \in {0, WaitThreshold} :
        LimiterStep("wait", wait_if_needed(rate_limiter, threshold), unit_call.elapsed,
                    max_wait, threshold, FALSE)

\* rate_limiter.update_from_headers(headers)
UpdatesFromHeaders ==
    \E headers \in ObservedHeaders :
        LimiterStep("update", update_from_headers(rate_limiter, headers),
                    unit_call.elapsed, 0, WaitThreshold, headers.has_reset)

\* two minutes pass between two calls
TimePasses ==
    LimiterStep("later", later(rate_limiter, 1200), unit_call.elapsed + 1200, 0,
                WaitThreshold, FALSE)

NextLimiter == Decrements \/ WaitsIfNeeded \/ UpdatesFromHeaders \/ TimePasses

\* ------------------------------------------------------------------------
\* The UI by itself: the calls of fetch_and_analyze_posts, the rebuild of
\* all_data in main and the cache buttons of the sidebar
\* ------------------------------------------------------------------------
\* The rebuild of all_data handles one account at a time: it checks the
\* file (stage idle -> call or after), calls fetch_and_analyze_posts unless
\* it used the file (call -> called) and then keeps or discards the result
\* (after, called -> idle).
Rebuild(stage, a, use_cache, force_refresh) ==
    [op |-> "rebuild", stage |-> stage, account |-> a, use_cache |-> use_cache,
     force_refresh |-> force_refresh]

RebuildIdle == Rebuild("idle", 0, FALSE, FALSE)

InitUi ==
    /\ Start(SeedFiles)
    /\ upstream = PlainUpstream
    /\ horizon = 1
    /\ process = "ui"
    /\ wait_call = NoWaitCall
    /\ exit_call = NoExitCall
    /\ ui_backfill = NoBackfillCall
    /\ sampler_call = NoSamplerCall
    /\ unit_call = RebuildIdle

\* the variables of the environment but the stage of the rebuild
uiRest == <<upstream, horizon, process, wait_call, exit_call, ui_backfill, sampler_call,
            rate_limiter, batch>>

\* a call of fetch_and_analyze_posts outside the rebuild
UiFetches == unit_call.stage = "idle" /\ UiFetchBegin

\* main, rebuild of all_data, one account of the first loop up to the call
\* of fetch_and_analyze_posts: cached_data = load_cache(cache_key) if
\* use_cache else None, the contamination test, the load from the file with
\* the quality backfill
RebuildChecks ==
    /\ unit_call.stage = "idle"
    /\ pc = "idle"
    /\ \E a \in Accounts, use_cache \in BOOLEAN, new_account \in BOOLEAN,
          xapi \in BOOLEAN, qo \in QualityOutcomes(upstream) :
          LET cached_data == IF use_cache THEN cache[a] ELSE NoFile
              e == ensure_quality_score(cached_data.persona, qo)
              data == [cached_data EXCEPT !.persona = e.persona]
          IN  /\ NoFetchPosts("ui", a)
              /\ IF cached_data.kind = "nonmapping"
                 THEN \* cached_data.get raises AttributeError
                      /\ request' = Request(use_cache, FALSE, "malformed")
                      /\ result' = Raised("ui", a)
                      /\ net_calls' = 0
                      /\ quality_calls' = 0
                      /\ UNCHANGED <<cache, session_state, unit_call>>
                 ELSE IF cached_data.kind = "entry"
                         /\ has_generated_posts(cached_data.posts)
                 THEN \* delete_cache(cache_key); del st.session_state[session_key]
                      /\ request' = Request(use_cache, new_account, "contaminated")
                      /\ cache' = [cache EXCEPT ![a] = NoFile]
                      /\ session_state' = [session_state EXCEPT ![a] = NoFile]
                      /\ result' = NoResult
                      /\ net_calls' = 0
                      /\ quality_calls' = 0
                      /\ unit_call' = Rebuild("call", a, use_cache, new_account)
                 ELSE IF cached_data.kind = "entry"
                 THEN /\ request' = Request(use_cache, FALSE, "hit")
                      /\ session_state' = [session_state EXCEPT ![a] =
                                              IF e.added THEN data ELSE cached_data]
                      /\ cache' = [cache EXCEPT ![a] = IF e.added THEN data ELSE @]
                      /\ result' = Returned("ui", a,
                                      FetchResult(cached_data.posts, e.persona, "file",
                                                  CachedSource(cached_data)))
                      /\ net_calls' = IF e.evaluated THEN MetricsCalls(xapi) ELSE 0
                      /\ quality_calls' = IF e.evaluated THEN 1 ELSE 0
                      /\ unit_call' = Rebuild("after", a, use_cache, FALSE)
                 ELSE /\ request' = Request(use_cache, new_account,
                                            IF use_cache THEN "miss" ELSE "unread")
                      /\ result' = NoResult
                      /\ net_calls' = 0
                      /\ quality_calls' = 0
                      /\ unit_call' = Rebuild("call", a, use_cache, new_account)
                      /\ UNCHANGED <<cache, session_state>>
    /\ UNCHANGED uiRest

\* the call of fetch_and_analyze_posts of the first loop
RebuildCalls ==
    /\ unit_call.stage = "call"
    /\ pc = "idle"
    /\ \E xapi \in BOOLEAN, qo \in QualityOutcomes(upstream) :
          UiFetch(unit_call.account, unit_call.use_cache, unit_call.force_refresh,
                  xapi, qo)
    /\ unit_call' = [unit_call EXCEPT !.stage = "called"]
    /\ UNCHANGED uiRest

\* the call of the retry loop over failed_accounts: use_cache=False,
\* force_refresh=True
RebuildRetries ==
    /\ unit_call.stage = "idle"
    /\ pc = "idle"
    /\ \E a \in Accounts, xapi \in BOOLEAN, qo \in QualityOutcomes(upstream) :
          /\ UiFetch(a, FALSE, TRUE, xapi, qo)
          /\ unit_call' = Rebuild("called", a, FALSE, TRUE)
    /\ UNCHANGED uiRest

\* the end of the loop body, in both loops: if posts and persona, the
\* account goes into all_data; else its session entry is discarded
RebuildEnds ==
    /\ unit_call.stage \in {"after", "called"}
    /\ pc = "idle"
    /\ IF result.status # "exception"
          /\ ~(result.posts # <<>> /\ Truthy(result.persona))
       THEN session_state' = [session_state EXCEPT ![unit_call.account] = NoFile]
       ELSE UNCHANGED session_state
    /\ unit_call' = RebuildIdle
    /\ UNCHANGED <<now, cache, fetchVars, result>>
    /\ UNCHANGED uiRest

\* the buttons of one account: re-fetch, which discards its session entry,
\* and delete, which discards it as well
UiForgetsAccount ==
    /\ unit_call.stage = "idle"
    /\ pc = "idle"
    /\ \E a \in Accounts : session_state' = [session_state EXCEPT ![a] = NoFile]
    /\ UNCHANGED <<now, cache, fetchVars, result, unit_call>>
    /\ UNCHANGED uiRest

\* the button that re-fetches everything: every session entry is discarded
UiRefreshesAll ==
    /\ unit_call.stage = "idle"
    /\ pc = "idle"
    /\ session_state' = [a \in Accounts |-> NoFile]
    /\ UNCHANGED <<now, cache, fetchVars, result, unit_call>>
    /\ UNCHANGED uiRest

\* the button that clears the cache: shutil.rmtree(CACHE_DIR), then every
\* session entry is discarded
\* a clearing that removes the files and keeps the session entries
UiClearsCacheMutFilesOnly ==
    /\ unit_call.stage = "idle"
    /\ pc = "idle"
    /\ cache' = [a \in Accounts |-> NoFile]
    /\ UNCHANGED <<now, fetchVars, result, unit_call, session_state>>
    /\ UNCHANGED uiRest

UiClearsCache ==
    /\ unit_call.stage = "idle"
    /\ pc = "idle"
    /\ cache' = [a \in Accounts |-> NoFile]
    /\ session_state' = [a \in Accounts |-> NoFile]
    /\ UNCHANGED <<now, fetchVars, result, unit_call>>
    /\ UNCHANGED uiRest

NextUi ==
    \/ UiFetches
    \/ UiFetchEnd
    \/ Strategy1
    \/ Strategy2
    \/ Strategy3
    \/ RebuildChecks
    \/ RebuildCalls
    \/ RebuildRetries
    \/ RebuildEnds
    \/ UiForgetsAccount
    \/ UiRefreshesAll
    \/ UiClearsCache

\* ------------------------------------------------------------------------
\* The collection loop of discover_accounts_hybrid by itself
\* ------------------------------------------------------------------------
\* a candidate found by a channel: the i-th of its batch
Found(h, channel, i) == [handle |-> h, source |-> channel, tag |-> i]

\* the handles the search of the API finds, in order
ApiNames == <<<<"u">>, <<"v">>, <<"w">>, <<"x">>, <<"y">>>>

\* what _discover_via_x_api can do: raise, or return its first n candidates
ApiBatch(n) == [i \in 1..n |-> Found(ApiNames[i], "x_api", i)]

ApiOutcomes == {[raised |-> TRUE, batch |-> <<>>]}
                  \cup {[raised |-> FALSE, batch |-> ApiBatch(n)] :
                          n \in {0, 1, MinUsefulBatch - 1, MinUsefulBatch}}

\* the handles of the candidates of the web search
GrokNames == {<<"u">>, <<"U">>, <<"z">>}

\* what _discover_via_grok can do: raise, or return up to two candidates
GrokOutcomes ==
    {[raised |-> TRUE, batch |-> <<>>]}
      \cup UNION {{[raised |-> FALSE,
                    batch |-> [i \in 1..n |-> Found(hs[i], "grok_web_search", i)]] :
                      hs \in [1..n -> GrokNames]} : n \in 0..2}

\* a call of discover_accounts_hybrid in its loop over the queries
Discovery(stage, left, all, account_batch, x, g, c) ==
    [op |-> "discover", stage |-> stage, queries_left |-> left,
     all_candidates |-> all, account_batch |-> account_batch,
     api_tried |-> x.tried, api_batch |-> x.batch,
     grok_tried |-> g.tried, grok_batch |-> g.batch,
     max_results |-> c.max_results, prefer_x_api |-> c.prefer_x_api,
     fallback_to_grok |-> c.fallback_to_grok, x_usable |-> c.x_usable,
     has_grok |-> c.has_grok]

Untried == [tried |-> FALSE, batch |-> <<>>]
Tried(found) == [tried |-> TRUE, batch |-> found]

\* the arguments and the clients of the call in progress
ArgsOf(call) ==
    [max_results |-> call.max_results, prefer_x_api |-> call.prefer_x_api,
     fallback_to_grok |-> call.fallback_to_grok, x_usable |-> call.x_usable,
     has_grok |-> call.has_grok]

InitDiscover ==
    /\ Start({NoFile})
    /\ upstream = PlainUpstream
    /\ horizon = 0
    /\ process = "none"
    /\ wait_call = NoWaitCall
    /\ exit_call = NoExitCall
    /\ ui_backfill = NoBackfillCall
    /\ sampler_call = NoSamplerCall
    /\ \E n \in 0..MaxQueries, max_results \in {1, 3},
          prefer_x_api \in BOOLEAN, fallback_to_grok \in BOOLEAN,
          x_usable \in BOOLEAN, has_grok \in BOOLEAN :
          unit_call = Discovery("loop", n, <<>>, <<>>, Untried, Untried,
                                [max_results |-> max_results,
                                 prefer_x_api |-> prefer_x_api,
                                 fallback_to_grok |-> fallback_to_grok,
                                 x_usable |-> x_usable, has_grok |-> has_grok])

DiscoverStep(call) ==
    /\ unit_call.op = "discover"
    /\ unit_call' = call
    /\ UNCHANGED <<cache, session_state, now, upstream, horizon, process, wait_call,
                   exit_call, ui_backfill, sampler_call, fetchVars, rate_limiter,
                   batch, result>>

\* the next query begins: the search of the API, when it is preferred and
\* usable
QueryBegins ==
    /\ unit_call.op = "discover"
    /\ unit_call.stage = "loop"
    /\ unit_call.queries_left > 0
    /\ Len(unit_call.all_candidates) < unit_call.max_results * 2
    /\ IF unit_call.prefer_x_api /\ unit_call.x_usable
       THEN \E o \in ApiOutcomes :
               DiscoverStep(Discovery("api_done", unit_call.queries_left,
                                      unit_call.all_candidates, o.batch,
                                      Tried(o.batch), Untried, ArgsOf(unit_call)))
       ELSE DiscoverStep(Discovery("api_done", unit_call.queries_left,
                                   unit_call.all_candidates, <<>>,
                                   Untried, Untried, ArgsOf(unit_call)))

\* the web search is consulted and its candidates are merged
ConsultsGrok ==
    /\ unit_call.op = "discover"
    /\ unit_call.stage = "api_done"
    /\ NeedsFallback(unit_call.account_batch, unit_call.fallback_to_grok,
                     unit_call.has_grok)
    /\ \E o \in GrokOutcomes :
          DiscoverStep(Discovery("batch_done", unit_call.queries_left,
                                 unit_call.all_candidates,
                                 IF o.raised THEN unit_call.account_batch
                                 ELSE GrokMerge(unit_call.account_batch, o.batch),
                                 [tried |-> unit_call.api_tried, batch |-> unit_call.api_batch],
                                 Tried(o.batch), ArgsOf(unit_call)))

\* the web search is not consulted
SkipsGrok ==
    /\ unit_call.op = "discover"
    /\ unit_call.stage = "api_done"
    /\ ~NeedsFallback(unit_call.account_batch, unit_call.fallback_to_grok,
                      unit_call.has_grok)
    /\ DiscoverStep([unit_call EXCEPT !.stage = "batch_done"])

\* all_candidates.extend(account_batch)
ExtendsCandidates ==
    /\ unit_call.op = "discover"
    /\ unit_call.stage = "batch_done"
    /\ DiscoverStep([unit_call EXCEPT
                        !.stage = "loop",
                        !.queries_left = @ - 1,
                        !.all_candidates = @ \o unit_call.account_batch])

\* the loop over the queries ends
CollectionEnds ==
    /\ unit_call.op = "discover"
    /\ unit_call.stage = "loop"
    /\ \/ unit_call.queries_left = 0
       \/ Len(unit_call.all_candidates) >= unit_call.max_results * 2
    /\ DiscoverStep([unit_call EXCEPT !.stage = "collected"])

NextDiscover ==
    \/ QueryBegins
    \/ ConsultsGrok
    \/ SkipsGrok
    \/ ExtendsCandidates
    \/ CollectionEnds

\* ------------------------------------------------------------------------
\* The batch runner of the UI by itself (the batch_processing block of main)
\* ------------------------------------------------------------------------
\* what fetch_and_analyze_posts comes to for an account that has no cache:
\* posts and a persona ("ok"), posts without a persona ("unverified"), or
\* no posts or an exception ("failed")
FetchKinds == <<"ok", "unverified", "failed">>

\* the worlds explored: every account of one kind, or the kinds in turn
KindPatterns(n) ==
    {[i \in 1..n |-> FetchKinds[k]] : k \in 1..3}
      \cup {[i \in 1..n |-> FetchKinds[(i % 3) + 1]]}

\* the accounts of status s, in the order of the dict account_status
RECURSIVE WithStatus(_, _, _)
WithStatus(account_status, s, i) ==
    IF i > Len(account_status) THEN <<>>
    ELSE (IF account_status[i] = s THEN <<i>> ELSE <<>>)
            \o WithStatus(account_status, s, i + 1)

PendingAccounts(account_status) == WithStatus(account_status, "pending", 1)

\* check_cache_status: an error is kept; else the session entry, else the
\* file, else pending (an account of 'cached' has both)
check_cache_status(account_status, cached) ==
    [i \in 1..Len(account_status) |->
        IF account_status[i] = "error" THEN "error"
        ELSE IF i \in cached THEN "cached_session"
        ELSE "pending"]

\* the session state of the UI between two runs of the script
UiBatch(n, kinds, account_status) ==
    [op |-> "uibatch", n |-> n, kinds |-> kinds, account_status |-> account_status,
     cached |-> {i \in 1..n : account_status[i] # "pending"},
     batch_processing |-> FALSE, batch_processed_count |-> 0,
     stage |-> "idle", current_batch |-> <<>>, end_idx |-> 0, total_pending |-> 0,
     started_with |-> {}, fetch_calls |-> [i \in 1..n |-> 0],
     starts |-> 0]

InitUiBatch ==
    /\ Start({NoFile})
    /\ upstream = PlainUpstream
    /\ horizon = 0
    /\ process = "none"
    /\ wait_call = NoWaitCall
    /\ exit_call = NoExitCall
    /\ ui_backfill = NoBackfillCall
    /\ sampler_call = NoSamplerCall
    /\ \E n \in 0..MaxListed, first_cached \in BOOLEAN :
          \E kinds \in KindPatterns(n) :
             unit_call = UiBatch(n, kinds,
                                 [i \in 1..n |-> IF i = 1 /\ first_cached
                                                 THEN "cached_file" ELSE "pending"])

UiBatchStep(call) ==
    /\ unit_call.op = "uibatch"
    /\ unit_call' = call
    /\ UNCHANGED <<cache, session_state, now, upstream, horizon, process, wait_call,
                   exit_call, ui_backfill, sampler_call, fetchVars, rate_limiter,
                   batch, result>>

\* the button that fetches what is missing
StartsBatch ==
    /\ unit_call.op = "uibatch"
    /\ unit_call.stage = "idle"
    /\ ~unit_call.batch_processing
    /\ unit_call.starts = 0
    /\ PendingAccounts(unit_call.account_status) # <<>>
    /\ UiBatchStep([unit_call EXCEPT
                       !.batch_processing = TRUE,
                       !.starts = 1,
                       !.started_with = {i \in 1..unit_call.n :
                                            unit_call.account_status[i] = "pending"},
                       !.fetch_calls = [i \in 1..unit_call.n |-> 0]])

\* the button that retries the errors: they go back to pending, the
\* statuses are read again from the caches and the batch is started
RetriesErrors ==
    /\ unit_call.op = "uibatch"
    /\ unit_call.stage = "idle"
    /\ ~unit_call.batch_processing
    /\ unit_call.starts = 1
    /\ WithStatus(unit_call.account_status, "error", 1) # <<>>
    /\ LET pending_again == [i \in 1..unit_call.n |->
                                IF unit_call.account_status[i] = "error"
                                THEN "pending" ELSE unit_call.account_status[i]]
           account_status == check_cache_status(pending_again, unit_call.cached)
       IN  UiBatchStep([unit_call EXCEPT
                           !.account_status = account_status,
                           !.batch_processing = TRUE,
                           !.starts = 2,
                           !.started_with = {i \in 1..unit_call.n :
                                                account_status[i] = "pending"},
                           !.fetch_calls = [i \in 1..unit_call.n |-> 0]])

\* a run of the script with batch_processing set reads the pending accounts
\* and takes the next batch of them, from batch_processed_count on
BatchRunBegins ==
    /\ unit_call.op = "uibatch"
    /\ unit_call.stage = "idle"
    /\ unit_call.batch_processing
    /\ LET pending_accounts == PendingAccounts(unit_call.account_status)
           total_pending == Len(pending_accounts)
           processed == unit_call.batch_processed_count
           end_idx == Min(processed + BATCH_SIZE, total_pending)
       IN  /\ pending_accounts # <<>>
           /\ processed < total_pending
           /\ UiBatchStep([unit_call EXCEPT
                              !.stage = "loop",
                              !.current_batch = SubSeq(pending_accounts,
                                                       processed + 1, end_idx),
                              !.end_idx = end_idx,
                              !.total_pending = total_pending])

\* a run that finds batch_processed_count at the number of pending accounts
\* or beyond reports completion
BatchFindsAllProcessed ==
    /\ unit_call.op = "uibatch"
    /\ unit_call.stage = "idle"
    /\ unit_call.batch_processing
    /\ LET pending_accounts == PendingAccounts(unit_call.account_status)
       IN  /\ pending_accounts # <<>>
           /\ ~(unit_call.batch_processed_count < Len(pending_accounts))
    /\ UiBatchStep([unit_call EXCEPT
                       !.batch_processing = FALSE,
                       !.batch_processed_count = 0])

\* a run that finds no pending account
BatchFindsNonePending ==
    /\ unit_call.op = "uibatch"
    /\ unit_call.stage = "idle"
    /\ unit_call.batch_processing
    /\ PendingAccounts(unit_call.account_status) = <<>>
    /\ UiBatchStep([unit_call EXCEPT
                       !.batch_processing = FALSE,
                       !.batch_processed_count = 0])

\* the loop over current_batch: fetch_and_analyze_posts for the next account
\* and the status that follows
BatchFetches ==
    /\ unit_call.op = "uibatch"
    /\ unit_call.stage = "loop"
    /\ unit_call.current_batch # <<>>
    /\ LET a == Head(unit_call.current_batch)
           kind == unit_call.kinds[a]
       IN  UiBatchStep([unit_call EXCEPT
                           !.current_batch = Tail(@),
                           !.fetch_calls[a] = @ + 1,
                           !.cached = IF kind = "failed" THEN @ ELSE @ \cup {a},
                           !.account_status[a] =
                               IF kind = "ok" THEN "cached_session" ELSE "error"])

\* after the loop: the count is set to the end of the batch, the batch is
\* over when that reaches the number of pending accounts read; rerun
BatchRunEnds ==
    /\ unit_call.op = "uibatch"
    /\ unit_call.stage = "loop"
    /\ unit_call.current_batch = <<>>
    /\ IF unit_call.end_idx >= unit_call.total_pending
       THEN UiBatchStep([unit_call EXCEPT
                            !.stage = "idle",
                            !.batch_processing = FALSE,
                            !.batch_processed_count = 0])
       ELSE UiBatchStep([unit_call EXCEPT
                            !.stage = "idle",
                            !.batch_processed_count = unit_call.end_idx])

NextUiBatch ==
    \/ StartsBatch
    \/ RetriesErrors
    \/ BatchRunBegins
    \/ BatchFindsAllProcessed
    \/ BatchFindsNonePending
    \/ BatchFetches
    \/ BatchRunEnds

Next ==
    \/ BatchStart
    \/ FetchAccountDataBegin
    \/ FetchAccountDataEnd
    \/ BatchEnd
    \/ BatchAbort
    \/ UiFetchBegin
    \/ UiFetchEnd
    \/ Strategy1
    \/ Strategy2
    \/ Strategy3

Spec == Init /\ [][Next]_vars

SpecOneFetch == InitOneFetch /\ [][Next]_vars

SpecWait == InitWait /\ [][NextWait]_vars

SpecExit == InitExit /\ [][NextExit]_vars

SpecBoth == InitBoth /\ [][NextBoth]_vars

SpecDedup == InitDedup /\ [][NextDedup]_vars

SpecSampling == InitSampling /\ [][NextSampling]_vars

SpecQuality == InitQuality /\ [][NextQuality]_vars

SpecEntropy == InitEntropy /\ [][NextEntropy]_vars

SpecRead == InitRead /\ [][NextRead]_vars

SpecLimiter == InitLimiter /\ [][NextLimiter]_vars

SpecUi == InitUi /\ [][NextUi]_vars

SpecDiscover == InitDiscover /\ [][NextDiscover]_vars

SpecUiBatch == InitUiBatch /\ [][NextUiBatch]_vars

\* ------------------------------------------------------------------------
\* Properties
\* ------------------------------------------------------------------------
\* the log entries of strategy s
EntriesOf(s) == {i \in 1..Len(log) : log[i].strategy = s}

\* strategy s was attempted and its last attempt met an error
FailedWithError(s) ==
    /\ EntriesOf(s) # {}
    /\ \A i \in EntriesOf(s) : log[i].kind # "posts"
    /\ \E i \in EntriesOf(s) :
          /\ log[i].cond \in {"error", "limited"}
          /\ \A j \in EntriesOf(s) : j <= i

\* strategy s returned posts
Succeeded(s) == \E i \in EntriesOf(s) : log[i].kind = "posts"

\* fetch_account_data has just returned from a fetch that went through
\* fetch_posts
CliFetched == pc = "idle" /\ caller = "cli" /\ log # <<>> /\ result.by = "cli"

\* strategies 1 and 2 failed with an error and strategy 3 returned posts
FellThroughToWebSearch == FailedWithError(1) /\ FailedWithError(2) /\ Succeeded(3)

\* C1 as stated: when strategies 1 and 2 fail with a terminal error and
\* strategy 3 returns posts, the FetchResult of fetch_account_data has status
\* Success and the web-search source tag.
C1_AsStated ==
    (CliFetched /\ FellThroughToWebSearch)
        => (result.status = "success" /\ result.source = "web_search")

\* C1, amended: in that case the source of the FetchResult is never the
\* primary-API tag; the result is Success with the web-search tag and the
\* posts of strategy 3, or it is the Failed result of the exception handler
\* (persona generation or quality evaluation raised), whose source is unknown.
C1_Fallthrough ==
    (CliFetched /\ FellThroughToWebSearch)
        => /\ result.source # "twitter"
           /\ \/ /\ result.status = "success"
                 /\ result.source = "web_search"
                 /\ result.posts = posts
              \/ /\ result.status = "failed"
                 /\ result.source = "unknown"

\* C1 happens: a fetch fell through to the web search and returned Success
C1_Witness ==
    /\ CliFetched
    /\ FellThroughToWebSearch
    /\ result.status = "success"
    /\ result.source = "web_search"

\* the lead post of the list has an id with a synthetic marker
SyntheticLead(ps) == ps # <<>> /\ ps[1] \in {"sample_", "generated_"}

\* a cache entry that is valid and uncontaminated
ValidEntry(e) == e.kind = "entry" /\ ~SyntheticLead(e.posts)

\* the step in which fetch_account_data is called for account a
CliBegins(a) ==
    /\ process = "cli" /\ pc = "idle" /\ batch.pc = "loop" /\ batch.i + 1 = a
    /\ batch'.pc # "aborted"

\* the step in which fetch_and_analyze_posts is called for account a
UiBegins(a) == process = "ui" /\ pc = "idle" /\ caller' = "ui" /\ account' = a

\* the tier fetch_and_analyze_posts reads for account a
Tier(a) == IF session_state[a].kind # "none" THEN session_state[a] ELSE cache[a]

\* the UI call beginning in this step reads the caches
UiReadsCache(a) ==
    /\ ~request'.force_refresh
    /\ session_state[a].kind # "none" \/ request'.use_cache

\* the call returns in this step what the entry e holds, without any
\* upstream request
ReturnsStored(who, a, e) ==
    /\ pc' = "idle"
    /\ log' = <<>>
    /\ net_calls' = 0
    /\ result'.by = who /\ result'.account = a
    /\ result'.status \in {"cached", "session", "file"}
    /\ result'.posts = e.posts
    /\ result'.persona = e.persona

\* the persona of e needs no quality backfill
NoBackfill(e) == ~Truthy(e.persona) \/ e.persona.scored

Contaminated(e) == e.kind = "entry" /\ SyntheticLead(e.posts)

\* in this step the file of account a is deleted and fetch_posts is called
DeletesAndRefetches(a) ==
    /\ cache'[a] = NoFile
    /\ pc' \in {"s1", "s3"}
    /\ account' = a
    /\ net_calls' = 0

\* no fetch returns in this step a contaminated entry as a cache hit
NoContaminatedHit ==
    result'.status \in {"cached", "session", "file"}
        => ~SyntheticLead(result'.posts)

\* C3 as stated: the next fetch without force-refresh of an identity whose
\* cache entry is contaminated deletes the entry and goes on to a genuine
\* re-fetch through the strategy chain; the entry is never returned as Cached.
C3_AsStated ==
    [][/\ NoContaminatedHit
       /\ \A a \in Accounts :
            /\ (CliBegins(a) /\ ~batch.force_refresh /\ Contaminated(cache[a]))
                  => DeletesAndRefetches(a)
            /\ (UiBegins(a) /\ ~request'.force_refresh /\ Contaminated(Tier(a)))
                  => (DeletesAndRefetches(a) /\ session_state'[a] = NoFile)]_vars

\* C3, amended: so it is for every fetch that reads the cache: the CLI
\* fetcher, and the UI fetcher when the entry is in its session overlay or
\* use_cache is set. A UI fetch with use_cache off and nothing in the overlay
\* does not read the file: it leaves the contaminated file in place and calls
\* fetch_posts at once. No fetch returns a contaminated entry as Cached.
C3_SelfHealing ==
    [][/\ NoContaminatedHit
       /\ \A a \in Accounts :
            /\ (CliBegins(a) /\ ~batch.force_refresh /\ Contaminated(cache[a]))
                  => DeletesAndRefetches(a)
            /\ (UiBegins(a) /\ UiReadsCache(a) /\ Contaminated(Tier(a)))
                  => (DeletesAndRefetches(a) /\ session_state'[a] = NoFile)
            /\ (UiBegins(a) /\ ~request'.force_refresh /\ ~UiReadsCache(a)
                    /\ Contaminated(Tier(a)))
                  => (pc' \in {"s1", "s3"} /\ cache' = cache)]_vars

\* C3 happens: a fetch found a contaminated entry, deleted it and is in the
\* strategy chain
C3_Witness ==
    /\ request.found = "contaminated"
    /\ pc \in {"s1", "s2", "s3"}
    /\ cache[account] = NoFile
    /\ log # <<>>


\* fetch_account_data has returned a Failed FetchResult
CliFailed == result.by = "cli" /\ result.status = "failed"

\* C4 as stated: every FetchResult of fetch_account_data with status Failed
\* has posts = [] and persona = null.
C4_AsStated ==
    CliFailed => (result.posts = <<>> /\ result.persona = NonePersona)

\* C4, amended: every FetchResult of fetch_account_data with status Failed has
\* posts = [] and the empty mapping {} as persona, whether no posts were
\* obtained or the exception handler built it after posts had been fetched.
C4_FailedIsEmpty ==
    CliFailed => (result.posts = <<>> /\ result.persona = EmptyPersona)

\* C4 happens: posts were fetched, persona generation or quality evaluation
\* raised, and the exception handler returned Failed
C4_Witness == CliFetched /\ CliFailed /\ posts # <<>>

\* the wait that the call under study would need: reset delta + backoff +
\* jitter
RequiredWait ==
    ComputedWait(wait_call.hdr.delta, wait_call.attempt, wait_call.jitter)

\* C5 as stated: _wait_for_rate_limit_reset never sleeps longer than
\* max_wait_seconds, and whenever reset delta + backoff + jitter exceeds
\* max_wait_seconds it returns False without sleeping.
C5_AsStated ==
    wait_call.done =>
        /\ wait_call.slept <= wait_call.max_wait
        /\ (wait_call.hdr.parses /\ RequiredWait > wait_call.max_wait)
              => (~wait_call.ok /\ wait_call.slept = 0)

\* C5, amended: _wait_for_rate_limit_reset never sleeps longer than
\* max_wait_seconds; when the reset time lies in the future and reset delta +
\* backoff + jitter exceeds max_wait_seconds it returns False without
\* sleeping; when the reset time has passed it returns True without sleeping,
\* whatever max_wait_seconds is.
C5_WaitBound ==
    wait_call.done =>
        /\ wait_call.slept <= wait_call.max_wait
        /\ (wait_call.hdr.parses /\ wait_call.hdr.delta > 0
                /\ RequiredWait > wait_call.max_wait)
              => (~wait_call.ok /\ wait_call.slept = 0)
        /\ (wait_call.hdr.parses /\ wait_call.hdr.delta <= 0)
              => (wait_call.ok /\ wait_call.slept = 0)

\* C5 happens: waiting is allowed, the reset lies in the future, the required
\* wait exceeds the allowance and the call has refused
C5_Witness ==
    /\ wait_call.done
    /\ wait_call.hdr.parses
    /\ wait_call.hdr.delta > 0
    /\ wait_call.max_wait > 0
    /\ wait_call.hdr.delta <= wait_call.max_wait
    /\ RequiredWait > wait_call.max_wait
    /\ ~wait_call.ok

\* fetch_and_analyze_posts has just returned from a fetch that went through
\* fetch_posts
UiFetched == pc = "idle" /\ caller = "ui" /\ log # <<>> /\ result.by = "ui"

\* the first call of strategy 1 ended in the 429 error of the client
RateLimitedAtOnce ==
    /\ log # <<>>
    /\ log[1].strategy = 1
    /\ log[1].kind = "raise"
    /\ log[1].cond = "limited"

\* C6 as stated: when the UI fetches with max_rate_wait_seconds = 0 and the
\* primary API answers 429, fetch_posts ends at once, without sleeping, with
\* the rate-limit error, and fetch_and_analyze_posts takes its rate-limit
\* branch rather than the branch of an empty result or a normal return.
C6_AsStated ==
    /\ (caller = "ui" /\ pc \in {"s1", "s2", "s3", "ret", "raised"}
            /\ max_rate_wait = 0 /\ RateLimitedAtOnce)
          => (pc = "raised" /\ slept = 0)
    /\ (UiFetched /\ RateLimitedAtOnce) => result.status = "rate_limited"

\* the upstream conditions that are retriable errors: timeout, connection
\* failure, 5xx
RetriableEvents == {"timeout", "connection", "500", "502", "503", "504"}

\* the upstream conditions that are terminal errors
TerminalEvents == {"401", "403", "404"}

\* a call of fetch_posts is between its first strategy call and its return
InFetchPosts == pc \in {"s1", "s2", "s3", "ret", "raised"} /\ last.strategy # 0

\* C7 as stated: in each of the three strategies a retriable error on the
\* first attempt is followed by exactly one delayed retry of the same
\* strategy; a terminal error, or any error on the retry, falls through to
\* the next strategy; no strategy is attempted more than twice.
C7_AsStated ==
    /\ (InFetchPosts /\ last.attempt = 0 /\ last.event \in RetriableEvents)
          => /\ pc = PcOf(last.strategy)
             /\ attempt = 1
             /\ delayed >= RetryDelay(last.strategy)
    /\ (InFetchPosts /\ last.attempt = 0 /\ last.event \in TerminalEvents)
          => pc = NextStrategy(last.strategy)
    /\ (InFetchPosts /\ last.attempt = 1 /\ last.kind # "posts")
          => pc = NextStrategy(last.strategy)
    /\ \A s \in 1..3 : Cardinality(EntriesOf(s)) <= 2

\* no call of a strategy returned posts
NoStrategyReturnedPosts == log # <<>> /\ \A i \in 1..Len(log) : log[i].kind # "posts"

\* C8: if every strategy failed or returned nothing, fetch_posts returns the
\* empty list and fetch_account_data returns status Failed, source unknown
\* and posts = [].
C8_TotalFailure ==
    /\ (pc = "ret" /\ NoStrategyReturnedPosts) => posts = <<>>
    /\ (CliFetched /\ NoStrategyReturnedPosts)
          => /\ result.status = "failed"
             /\ result.source = "unknown"
             /\ result.posts = <<>>

\* C8 happens: the three strategies were tried, none returned posts, and
\* fetch_account_data returned Failed
C8_Witness ==
    /\ CliFetched
    /\ NoStrategyReturnedPosts
    /\ \A s \in 1..3 : EntriesOf(s) # {}
    /\ result.status = "failed"

\* C9 as stated: when a batch run is aborted, exactly the accounts before the
\* abort are processed and for every later account no upstream call has been
\* made: a fetch in flight has completed or failed before the abort takes
\* effect.
C9_AsStated ==
    batch.pc = "aborted" =>
        /\ Len(batch.results) = batch.i
        /\ \A a \in Accounts :
              a > batch.i => ~(a \in batch.touched /\ account = a /\ net_calls > 0)

\* C10 as stated: no failure of one account leaves fetch_account_data as an
\* exception; every failure is a Failed FetchResult and the batch goes on,
\* even when a cache file holds something that is not a mapping.
C10_AsStated ==
    /\ batch.pc # "crashed"
    /\ result.by = "cli" => result.status \in {"success", "cached", "failed"}


\* the batch summary under study has a failed account
AnyFailed == exit_call.summary.failed > 0

\* in it the generated-source results are more than 5% of the accounts
OverThreshold ==
    exit_call.summary.generated * 100
        > GENERATED_RATIO_THRESHOLD * exit_call.summary.total

C12_AsStated ==
    /\ (pc \in {"s1", "s2", "s3", "ret"} /\ request.force_refresh)
          => cache[account] = NoFile
    /\ (CliFetched /\ batch.force_refresh /\ result.status = "failed")
          => cache[account] = NoFile

\* the step is a call of fetch_and_analyze_posts for account a that is
\* answered from the valid entry Tier(a): the backfill is applied to it
UiHit(a) == UiBegins(a) /\ UiReadsCache(a) /\ ValidEntry(Tier(a))

\* the call of fetch_and_analyze_posts before this step was answered from
\* the entry of account a: the backfill has been applied to it already
AfterHit(a) == pc = "idle" /\ caller = "ui" /\ account = a /\ request.found = "hit"

\* x is the entry e but for its persona
SameButPersona(x, e) ==
    /\ x.kind = e.kind
    /\ x.posts = e.posts
    /\ x.source = e.source
    /\ x.fetched_at = e.fetched_at

\* the backfill of this step left posts, fetched_at and source of the entry
\* of account a as they were, in both tiers
KeepsEntry(a) ==
    /\ SameButPersona(session_state'[a], Tier(a))
    /\ cache'[a] # cache[a] => SameButPersona(cache'[a], Tier(a))

\* C13 as stated: the backfill evaluates only when the persona of the entry
\* lacks quality_score, and then attaches the score and rewrites the entry;
\* applied a second time to the same entry it evaluates nothing, writes
\* nothing and leaves the entry unchanged; it never changes posts, fetched_at
\* or source.
C13_AsStated ==
    [][\A a \in Accounts :
        UiHit(a) =>
            /\ quality_calls' > 0 => ~Tier(a).persona.scored
            /\ quality_calls' > 0
                  => /\ session_state'[a].persona.scored
                     /\ cache'[a] = session_state'[a]
            /\ AfterHit(a)
                  => /\ quality_calls' = 0
                     /\ cache' = cache
                     /\ session_state' = session_state
            /\ KeepsEntry(a)]_vars

\* C13, amended: the backfill evaluates only when the persona of the entry is
\* non-empty and lacks quality_score. If the evaluation succeeds it attaches
\* the score and rewrites the entry in both tiers, and a second application
\* to that entry evaluates nothing, writes nothing and leaves it unchanged.
\* If the evaluation fails nothing is attached or written, and the next
\* application evaluates again. The backfill never changes posts, fetched_at
\* or source.
C13_BackfillIdempotent ==
    [][\A a \in Accounts :
        UiHit(a) =>
            /\ quality_calls' > 0
                  <=> (Truthy(Tier(a).persona) /\ ~Tier(a).persona.scored)
            /\ (quality_calls' > 0 /\ session_state'[a].persona.scored)
                  => /\ cache'[a] = session_state'[a]
                     /\ result'.persona = session_state'[a].persona
            /\ (quality_calls' > 0 /\ ~session_state'[a].persona.scored)
                  => /\ cache' = cache
                     /\ session_state'[a] = Tier(a)
            /\ (AfterHit(a) /\ (quality_calls = 0 \/ Tier(a).persona.scored))
                  => /\ quality_calls' = 0
                     /\ cache' = cache
                     /\ session_state' = session_state
            /\ KeepsEntry(a)]_vars

\* C13 happens: a backfill has just attached a score to the entry of an
\* account and rewritten it in both tiers
C13_Witness ==
    /\ pc = "idle" /\ caller = "ui" /\ account \in Accounts
    /\ request.found = "hit"
    /\ quality_calls = 1
    /\ session_state[account].kind = "entry"
    /\ session_state[account].persona.scored
    /\ cache[account] = session_state[account]

\* C14: a FetchResult of fetch_account_data whose persona is neither null nor
\* empty, returned by a fetch in which check_account_quality ran, carries a
\* quality_score in that persona, and the entry the fetch wrote to the cache
\* carries the same persona with the same score; in every Success result with
\* such a persona the evaluation has run.
C14_QualityPresence ==
    /\ (CliFetched /\ Truthy(result.persona) /\ quality_calls > 0)
          => /\ result.persona.scored
             /\ result.persona.quality_score \in QualityScores
             /\ cache[account].kind = "entry"
             /\ cache[account].persona = result.persona
    /\ (CliFetched /\ Truthy(result.persona) /\ result.status = "success")
          => quality_calls > 0

\* C14 happens: a fetch returned Success with a persona whose score is under
\* the quality floor, and the cache entry holds that persona
C14_Witness ==
    /\ CliFetched
    /\ result.status = "success"
    /\ Truthy(result.persona)
    /\ result.persona.scored
    /\ result.persona.quality_score = 45
    /\ cache[account].persona = result.persona

\* C15 as stated: no update of a cache file is lost: when the quality
\* backfill of the UI writes the entry of an account, the file still holds
\* the entry the backfill read, so it never overwrites an entry that the
\* batch run wrote in between.
C15_AsStated ==
    [][\A a \in Accounts :
        (ui_backfill.active /\ ui_backfill.account = a /\ ~ui_backfill'.active
            /\ cache'[a] # cache[a])
          => cache[a] = ui_backfill.entry]_vars

\* ------------------------------------------------------------------------
\* DiversitySampler
\* ------------------------------------------------------------------------
\* the members of a list
Members(s) == {s[i] : i \in 1..Len(s)}

\* no candidate is twice in the list
Distinct(s) == \A i, j \in 1..Len(s) : i # j => s[i] # s[j]

\* stratified_sampling has returned, called directly or by
\* discover_accounts_hybrid
StratifiedDone ==
    /\ sampler_call.op \in {"stratified", "hybrid"}
    /\ sampler_call.op = "hybrid" => sampler_call.sampling_method = "stratified"
    /\ sampler_call.done

\* the attributes it stratified by
StrataAttributesUsed ==
    IF sampler_call.op = "hybrid" THEN HybridStrataAttributes
    ELSE sampler_call.strata_attributes

\* the candidates of list s in the stratum of candidate a
InStratumOf(s, a) ==
    {i \in 1..Len(s) :
        StratumKey(s[i], StrataAttributesUsed) = StratumKey(a, StrataAttributesUsed)}

\* C16: stratified_sampling returns distinct candidates of the pool, at most
\* num_samples of them, from each stratum no more than the stratum holds;
\* from five candidates with the follower buckets micro, small, medium,
\* small, medium and num_samples = 3 it returns exactly three.
C16_StratifiedSafety ==
    StratifiedDone =>
        /\ ~sampler_call.raised
        /\ Distinct(sampler_call.result)
        /\ Members(sampler_call.result) \subseteq Members(sampler_call.accounts)
        /\ Len(sampler_call.result) <= sampler_call.num
        /\ \A a \in Members(sampler_call.accounts) :
              Cardinality(InStratumOf(sampler_call.result, a))
                  <= Cardinality(InStratumOf(sampler_call.accounts, a))
        /\ (sampler_call.accounts = ExamplePool /\ sampler_call.num = 3)
              => Len(sampler_call.result) = 3

\* the example: three distinct candidates out of the five, stratified by
\* follower bucket
C16_Witness ==
    /\ StratifiedDone
    /\ sampler_call.op = "stratified"
    /\ sampler_call.strata_attributes = {"followers"}
    /\ sampler_call.accounts = ExamplePool
    /\ sampler_call.num = 3
    /\ Len(sampler_call.result) = 3
    /\ Distinct(sampler_call.result)

\* the sampling step of discover_accounts_hybrid is over
HybridDone == sampler_call.op = "hybrid" /\ sampler_call.done

\* a sampler has ended, called directly or by discover_accounts_hybrid
SamplerDone ==
    sampler_call.op \in {"stratified", "quota", "hybrid"} /\ sampler_call.done

\* it returned the whole pool
FullPool ==
    /\ ~sampler_call.raised
    /\ Len(sampler_call.result) = Len(sampler_call.accounts)
    /\ Members(sampler_call.result) = Members(sampler_call.accounts)

\* C17 (as stated): under every sampling strategy an empty pool gives an
\* empty result without an exception, and a sample size of at least the size
\* of the pool gives the whole deduplicated pool.
C17_AsStated ==
    /\ SamplerDone /\ sampler_call.accounts = <<>>
          => ~sampler_call.raised /\ sampler_call.result = <<>>
    /\ HybridDone /\ sampler_call.num >= Len(sampler_call.accounts) => FullPool

\* C17 (amended): an empty pool gives an empty result without an exception
\* under every strategy; a sample size of at least the size of the pool
\* gives the whole pool under the stratified and the random strategy, while
\* quota sampling gives distinct candidates of the pool, only those its
\* quotas admit.
C17_EdgeCases ==
    /\ SamplerDone /\ sampler_call.accounts = <<>>
          => ~sampler_call.raised /\ sampler_call.result = <<>>
    /\ HybridDone /\ sampler_call.num >= Len(sampler_call.accounts)
          => IF sampler_call.sampling_method = "quota"
             THEN /\ ~sampler_call.raised
                  /\ Distinct(sampler_call.result)
                  /\ Members(sampler_call.result) \subseteq Members(sampler_call.accounts)
             ELSE FullPool

\* random sampling of more than a pool of three holds returned the three
C17_Witness ==
    /\ HybridDone
    /\ sampler_call.sampling_method = "random"
    /\ Len(sampler_call.accounts) = 3
    /\ sampler_call.num = 4
    /\ FullPool

\* quota_sampling has returned, called directly or by
\* discover_accounts_hybrid
QuotaDone ==
    /\ sampler_call.op \in {"quota", "hybrid"}
    /\ sampler_call.op = "hybrid" => sampler_call.sampling_method = "quota"
    /\ sampler_call.done

\* the quotas it was given
QuotasUsed ==
    IF sampler_call.op = "hybrid" THEN generate_default_quotas(sampler_call.num)
    ELSE sampler_call.quotas

\* the attributes they configure
Configured == DOMAIN QuotasUsed \cap QuotaAttributes

\* how many of the result have the value of candidate a for the attribute,
\* and the quota of that value
Selected(a, attribute) ==
    QuotaCount(sampler_call.result, attribute, AttributeValue(a, attribute))

QuotaOf(a, attribute) ==
    QuotaGet(QuotasUsed[attribute], AttributeValue(a, attribute))

\* C18: quota_sampling returns distinct candidates of the pool, at most
\* max_total of them, and of every value of every configured attribute no
\* more than its quota; it stops only when max_total is reached or when the
\* pool is exhausted, every candidate left out having met a full quota.
C18_QuotaRespected ==
    QuotaDone =>
        /\ ~sampler_call.raised
        /\ Distinct(sampler_call.result)
        /\ Members(sampler_call.result) \subseteq Members(sampler_call.accounts)
        /\ Len(sampler_call.result) <= sampler_call.num
        /\ \A attribute \in Configured : \A a \in Members(sampler_call.accounts) :
              Selected(a, attribute) <= QuotaOf(a, attribute)
        /\ \/ Len(sampler_call.result) = sampler_call.num
           \/ \A a \in Members(sampler_call.accounts) \ Members(sampler_call.result) :
                 \E attribute \in Configured :
                    Selected(a, attribute) >= QuotaOf(a, attribute)

\* the quotas of the test filled for a value, a candidate left out, the
\* total not reached
C18_Witness ==
    /\ QuotaDone
    /\ sampler_call.op = "quota"
    /\ sampler_call.quotas = TestQuotas
    /\ Len(sampler_call.result) >= 2
    /\ Len(sampler_call.result) < Len(sampler_call.accounts)
    /\ Len(sampler_call.result) < sampler_call.num

\* _deduplicate_accounts has returned
DedupDone == sampler_call.op = "dedup" /\ sampler_call.done

\* the keys of the candidates of a list
Keys(s) == {HandleKey(s[i]) : i \in 1..Len(s)}

\* the positions of the first occurrences of the non-empty keys
FirstOccurrences(s) ==
    {i \in 1..Len(s) :
        /\ HandleKey(s[i]) # <<>>
        /\ \A j \in 1..(i - 1) : HandleKey(s[j]) # HandleKey(s[i])}

\* C19 (as stated): the handles "user1", "@user1", "USER1", " user1 "
\* deduplicate to exactly one candidate.
C19_AsStated ==
    DedupDone /\ sampler_call.accounts = Discovered(ExampleHandles)
        => Len(sampler_call.result) = 1

\* C20: _deduplicate_accounts returns, in input order, the first occurrence
\* of each handle compared without leading "@" and without case: no two of
\* the result share a key, every non-empty key of the input is there, and
\* deduplicating the result returns it unchanged.
C20_FirstOccurrences ==
    /\ DedupDone =>
          /\ sampler_call.result
                = Pick(sampler_call.accounts, FirstOccurrences(sampler_call.accounts))
          /\ \A i, j \in 1..Len(sampler_call.result) :
                i # j => HandleKey(sampler_call.result[i])
                            # HandleKey(sampler_call.result[j])
          /\ Keys(sampler_call.result) = Keys(sampler_call.accounts) \ {<<>>}
    /\ DedupDone /\ sampler_call.again_done => sampler_call.again = sampler_call.result

\* three candidates, the third a duplicate of the first under the key, went
\* through twice: the first and the second are kept
C20_Witness ==
    /\ DedupDone
    /\ sampler_call.again_done
    /\ Len(sampler_call.accounts) = 3
    /\ HandleKey(sampler_call.accounts[1]) = HandleKey(sampler_call.accounts[3])
    /\ sampler_call.accounts[1].handle # sampler_call.accounts[3].handle
    /\ sampler_call.result = <<sampler_call.accounts[1], sampler_call.accounts[2]>>

\* ------------------------------------------------------------------------
\* Quality evaluation
\* ------------------------------------------------------------------------
\* check_account_quality has returned
QualityDone == unit_call.op = "quality" /\ unit_call.done

\* the metrics the caller handed over, through the client or account_info
GivenMetrics ==
    IF unit_call.x_metrics.available THEN unit_call.x_metrics
    ELSE unit_call.account_info.public_metrics

\* C21: check_account_quality returns passed = false whenever the follower
\* count is below min_followers, the post count is below the minimum, the
\* last activity is older than the window or the handle is shorter than 3 or
\* longer than 15, whatever the score.
C21_HardFail ==
    QualityDone =>
        /\ (GivenMetrics.available /\ GivenMetrics.followers_count < MIN_FOLLOWERS)
              => ~unit_call.result.passed
        /\ (GivenMetrics.available /\ GivenMetrics.tweet_count < MIN_TWEET_COUNT)
              => ~unit_call.result.passed
        /\ (GivenMetrics.available /\ GivenMetrics.last_tweet_at = "date"
              /\ GivenMetrics.days_inactive > MAX_DAYS_INACTIVE)
              => ~unit_call.result.passed
        /\ unit_call.account_info.handle_len \notin 3..15 => ~unit_call.result.passed

\* too few posts under a score above the floor: not passed
C21_Witness ==
    /\ QualityDone
    /\ GivenMetrics.available
    /\ GivenMetrics.followers_count >= MIN_FOLLOWERS
    /\ GivenMetrics.tweet_count < MIN_TWEET_COUNT
    /\ unit_call.account_info.handle_len \in 3..15
    /\ unit_call.result.score >= MinQualityScore
    /\ ~unit_call.result.passed

\* C22 (as stated): check_account_quality returns passed = false whenever
\* the final score is below min_quality_score, on the metrics path and on
\* the confidence path alike.
C22_AsStated ==
    QualityDone /\ unit_call.result.score < MinQualityScore => ~unit_call.result.passed

\* ------------------------------------------------------------------------
\* Entropy
\* ------------------------------------------------------------------------
EntropyDone == unit_call.op = "entropy" /\ unit_call.done

MetricsDone == unit_call.op = "metrics" /\ unit_call.done

\* every value occurs as often as every other
Uniform(counts) == \A i, j \in 1..Len(counts) : counts[i] = counts[j]

\* the sum of the entries of metrics for the attributes S
RECURSIVE SumOver(_, _)
SumOver(entropies, S) ==
    IF S = {} THEN 0
    ELSE LET a == CHOOSE a \in S : TRUE
         IN  entropies[a] + SumOver(entropies, S \ {a})

ReadDone == unit_call.op = "read" /\ unit_call.done

\* the handles read_accounts_from_file returned
ReadHandles ==
    IF unit_call.with_metadata THEN MainAccounts(unit_call.result) ELSE unit_call.result

NoRepetition(s) == \A i, j \in 1..Len(s) : s[i] = s[j] => i = j

\* C24: read_accounts_from_file strips the leading '@' and returns each
\* handle at most once, so that the accounts main hands to
\* process_accounts_batch hold no handle twice.
C24_AsStated ==
    /\ ReadDone =>
          /\ \A i \in 1..Len(ReadHandles) :
                ReadHandles[i] = <<>> \/ Head(ReadHandles[i]) # "@"
          /\ NoRepetition(ReadHandles)
    /\ (ReadDone /\ unit_call.in_main) => NoRepetition(unit_call.accounts)

\* ------------------------------------------------------------------------
\* Classification of the errors of a strategy
\* ------------------------------------------------------------------------
\* the HTTP answers with a 5xx status
ServerErrors == {"500", "502", "503", "504"}

\* the last call of a strategy was its first attempt and met the event e
FirstAttemptMet(e) == InFetchPosts /\ last.attempt = 0 /\ last.event = e

\* the same strategy is about to be called a second time, after its delay
RetryingOnce ==
    /\ pc = PcOf(last.strategy)
    /\ attempt = 1
    /\ delayed >= RetryDelay(last.strategy)

\* C25 as stated: a timeout, a connection failure and an HTTP 5xx answer are
\* each retried once by the strategy that met them, after its delay; an HTTP
\* 5xx answer to the timeline call of strategy 1 leads to one retry of
\* strategy 1, and a timeout is retried, not treated as terminal.
C25_AsStated ==
    /\ \A e \in ServerErrors :
          (FirstAttemptMet(e) /\ last.strategy = 1) => RetryingOnce
    /\ \A e \in {"timeout", "connection"} : FirstAttemptMet(e) => RetryingOnce
    /\ attempt <= 1

\* the upstream conditions that are never retried by fetch_posts: the
\* terminal errors and the rate limit, met at once or again after a wait
NeverRetried == TerminalEvents \cup {"429", "429_again"}

\* a strategy was called in this step
StrategyCalled == Len(log') = Len(log) + 1

YieldedNothing(s) == EntriesOf(s) # {} /\ ~Succeeded(s)

\* C27: fetch_posts calls the strategies in the order 1, 2, 3 and stops at
\* the first call that returns posts: strategy 2 is called only after
\* strategy 1 yielded nothing, strategy 3 only after strategies 1 and 2
\* yielded nothing or when no client of the primary API was given, and no
\* strategy is called after one returned posts.
C27_SequentialShortCircuit ==
    InFetchPosts =>
        /\ \A i, j \in 1..Len(log) : i < j => log[i].strategy <= log[j].strategy
        /\ \A i \in 1..Len(log) : log[i].kind = "posts" => i = Len(log)
        /\ (\E s \in 1..3 : Succeeded(s)) => (pc = "ret" /\ posts # <<>>)
        /\ EntriesOf(2) # {} => (x_api /\ YieldedNothing(1))
        /\ EntriesOf(3) # {} => (~x_api \/ (YieldedNothing(1) /\ YieldedNothing(2)))
        /\ ~x_api => (EntriesOf(1) = {} /\ EntriesOf(2) = {})
        /\ pc = "s2" => YieldedNothing(1)
        /\ pc = "s3" => (~x_api \/ (YieldedNothing(1) /\ YieldedNothing(2)))

\* strategy 1 yielded nothing, strategy 2 returned posts and fetch_posts
\* returns them without calling strategy 3
C27_Witness ==
    /\ InFetchPosts
    /\ x_api
    /\ YieldedNothing(1)
    /\ Succeeded(2)
    /\ EntriesOf(3) = {}
    /\ pc = "ret"
    /\ posts # <<>>

\* ------------------------------------------------------------------------
\* RateLimitManager
\* ------------------------------------------------------------------------
\* the latest call of the manager was wait_if_needed, and should_wait held
WaitWasNeeded ==
    /\ unit_call.op = "limiter"
    /\ unit_call.made = "wait"
    /\ should_wait(unit_call.before, unit_call.threshold)

\* what the latest call slept
SleptInCall == rate_limiter.slept - unit_call.before.slept

\* C28 as stated: when a wait is needed and reset_time is unknown,
\* wait_if_needed sleeps the conservative 15 minutes only if that is within
\* the caller's maximum wait, and does not sleep at all otherwise.
C28_AsStated ==
    (WaitWasNeeded /\ ~unit_call.before.reset_time.known)
        => /\ SleptInCall <= unit_call.max_wait
           /\ ConservativeWait > unit_call.max_wait => SleptInCall = 0

\* C29 as stated: when wait_if_needed is called with should_wait true and
\* reset_time known, remaining_calls is the initial budget when it returns
\* and should_wait is false, also when reset_time lies in the past.
C29_AsStated ==
    (WaitWasNeeded /\ unit_call.before.reset_time.known)
        => /\ rate_limiter.remaining_calls = InitialBudget
           /\ ~should_wait(rate_limiter, unit_call.threshold)

\* reset_time as a point in time: its distance from the present and the
\* time gone by, in the manager's sleeps and outside of them
ResetAt(rl, elapsed) == rl.slept + elapsed + rl.reset_time.delta

\* the latest call left reset_time as it was
ResetTimeKept ==
    /\ rate_limiter.reset_time.known = unit_call.before.reset_time.known
    /\ rate_limiter.reset_time.known
          => ResetAt(rate_limiter, unit_call.elapsed)
                = ResetAt(unit_call.before, unit_call.was_elapsed)

\* C30: decrement takes 1 from remaining_calls and stops at 0; after any
\* sequence of decrement, wait_if_needed and update_from_headers with
\* non-negative values remaining_calls is >= 0, and reset_time is changed
\* only by update_from_headers with a reset header.
C30_NonNegativeBudget ==
    /\ rate_limiter.remaining_calls >= 0
    /\ (unit_call.op = "limiter" /\ unit_call.made = "decrement")
          => rate_limiter =
                [unit_call.before EXCEPT
                    !.remaining_calls = IF @ = 0 THEN 0 ELSE @ - 1]
    /\ (unit_call.op = "limiter" /\ unit_call.made # "none"
            /\ ~(unit_call.made = "update" /\ unit_call.has_reset))
          => ResetTimeKept

\* decrement was called on a spent budget, with a reset time known, and
\* left the manager as it was
C30_Witness ==
    /\ unit_call.op = "limiter"
    /\ unit_call.made = "decrement"
    /\ unit_call.before.remaining_calls = 0
    /\ unit_call.before.reset_time.known
    /\ rate_limiter = unit_call.before

\* ------------------------------------------------------------------------
\* What fetch_account_data persists
\* ------------------------------------------------------------------------
\* fetch_account_data returns, in this step, from a fetch through fetch_posts
CliFetchReturns == pc = "ret" /\ caller = "cli" /\ pc' = "idle"

\* a persona that carries a quality score at or above min_quality_score
QualityPassing(persona) ==
    persona.scored /\ persona.quality_score * (ScoreUnit \div 100) >= MinQualityScore

\* C31 as stated: fetch_account_data writes a cache entry (posts, persona,
\* source, fetched_at = now) only for a result that is successful and
\* quality-passing; a fetch that ends Failed writes no cache entry.
C31_AsStated ==
    [][CliFetchReturns
          => /\ cache'[account] # cache[account]
                   => /\ result'.status = "success"
                      /\ QualityPassing(result'.persona)
                      /\ cache'[account]
                            = Entry(result'.posts, result'.persona, result'.source, now)
             /\ result'.status = "failed" => cache' = cache]_vars

\* ------------------------------------------------------------------------
\* The two tiers of the UI cache
\* ------------------------------------------------------------------------
\* the call of fetch_and_analyze_posts beginning in this step for account a
\* is a get: it is made without force_refresh
UiGets(a) == UiBegins(a) /\ ~request'.force_refresh

\* the call beginning in this step returns in it, from the tier named
AnsweredFrom(tier) == pc' = "idle" /\ result'.status = tier

BothHold(a, e) == session_state'[a] = e /\ cache'[a] = e

\* fetch_and_analyze_posts returns in this step from a fetch that got posts
\* and a persona answer
FreshFetchReturns ==
    /\ pc = "ret"
    /\ caller = "ui"
    /\ pc' = "idle"
    /\ result'.status = "fetched"

\* in this step the quality backfill attaches a score to the valid entry e
\* of account a, which the UI has read
BackfillOf(a, e) ==
    /\ pc = "idle"
    /\ pc' = "idle"
    /\ caller' = "ui"
    /\ account' = a
    /\ ValidEntry(e)
    /\ Truthy(e.persona)
    /\ ~e.persona.scored
    /\ quality_calls' = 1
    /\ result'.account = a
    /\ result'.status \in {"session", "file"}
    /\ result'.persona.scored

RebuildCheckStep(a) ==
    /\ unit_call.op = "rebuild"
    /\ unit_call.stage = "idle"
    /\ unit_call'.stage \in {"call", "after"}
    /\ unit_call'.account = a
    /\ unit_call'.use_cache

\* the step is a call of fetch_and_analyze_posts for account a that reads
\* the caches
UiGetStep(a) ==
    /\ pc = "idle"
    /\ caller' = "ui"
    /\ account' = a
    /\ unit_call'.stage \notin {"call", "after"}
    /\ pc' # "idle" \/ result' # result \/ request' # request
    /\ UiReadsCache(a)

C39_OverlayMirrorsFile ==
    \A a \in Accounts :
        session_state[a].kind = "entry"
            => /\ cache[a].kind = "entry"
               /\ cache[a].posts = session_state[a].posts
               /\ cache[a].persona = session_state[a].persona
               /\ cache[a].source = session_state[a].source

\* after a fetch, a load from a file and the discarding of one entry, one
\* account has its entry in both tiers and the other in the file only
C39_Witness ==
    /\ unit_call.op = "rebuild"
    /\ \E a, b \in Accounts :
          /\ session_state[a].kind = "entry"
          /\ session_state[a].fetched_at > 0
          /\ cache[a] = session_state[a]
          /\ session_state[b].kind = "none"
          /\ cache[b].kind = "entry"

\* the first position of each stratum of the pool of the call
StratumLeads ==
    {i \in 1..Len(sampler_call.accounts) :
        i = Least(InStratumOf(sampler_call.accounts, sampler_call.accounts[i]))}

\* the number of candidates in the stratum of position i of the pool
StratumSizeAt(i) ==
    Cardinality(InStratumOf(sampler_call.accounts, sampler_call.accounts[i]))

\* the sum of slots[i] over the positions R
RECURSIVE SumSlots(_, _)
SumSlots(R, slots) ==
    IF R = {} THEN 0 ELSE slots[Least(R)] + SumSlots(R \ {Least(R)}, slots)

\* the result of the call has, of each stratum, the slots given to it when
\* these are no more than num_samples altogether, and num_samples
\* candidates otherwise
AllocatedBy(slots) ==
    IF SumSlots(StratumLeads, slots) <= sampler_call.num
    THEN \A i \in StratumLeads :
            /\ Cardinality(InStratumOf(sampler_call.result, sampler_call.accounts[i]))
                  = slots[i]
            /\ slots[i] >= 1
    ELSE Len(sampler_call.result) = sampler_call.num

\* the slots of each stratum with the quotient rounded down, and rounded to
\* the nearest integer
SlotsRoundedDown ==
    [i \in StratumLeads |->
        Min(StratumSizeAt(i),
            Max(1, (sampler_call.num * StratumSizeAt(i)) \div Len(sampler_call.accounts)))]

SlotsRounded ==
    [i \in StratumLeads |->
        Min(StratumSizeAt(i),
            Max(1, PyRound(sampler_call.num * StratumSizeAt(i),
                           Len(sampler_call.accounts))))]

\* C35 as stated: stratified_sampling gives each stratum
\* max(1, round(num_samples * stratumSize / poolSize)) slots, capped at the
\* size of the stratum, and cuts the union to num_samples when it is larger.
C35_AsStated ==
    (StratifiedDone /\ sampler_call.accounts # <<>>) => AllocatedBy(SlotsRounded)

\* C35: stratified_sampling gives each stratum
\* max(1, floor(num_samples * stratumSize / poolSize)) slots, capped at the
\* size of the stratum, so that every stratum contributes at least one
\* candidate, and cuts the union to exactly num_samples when it is larger;
\* strata of 60, 30 and 10 out of 100 get 12, 6 and 2 slots of 20.
C35_Allocation ==
    /\ (StratifiedDone /\ sampler_call.accounts # <<>>) => AllocatedBy(SlotsRoundedDown)
    /\ StratifiedDone =>
          /\ SampleSize(20, 60, 100) = 12
          /\ SampleSize(20, 30, 100) = 6
          /\ SampleSize(20, 10, 100) = 2

\* two strata of two candidates each and num_samples = 3: one candidate of
\* each stratum is returned, where rounding 1.5 to 2 would give three
C35_Witness ==
    /\ StratifiedDone
    /\ sampler_call.num = 3
    /\ Len(sampler_call.accounts) = 4
    /\ Cardinality(StratumLeads) = 2
    /\ \A i \in StratumLeads : StratumSizeAt(i) = 2
    /\ Len(sampler_call.result) = 2
    /\ AllocatedBy(SlotsRoundedDown)

\* the web search is consulted in this step
GrokConsulted ==
    /\ unit_call.op = "discover"
    /\ ~unit_call.grok_tried
    /\ unit_call'.grok_tried

\* the step ends the part of a query that builds account_batch
BatchBuilt ==
    /\ unit_call.op = "discover"
    /\ unit_call.stage = "api_done"
    /\ unit_call'.stage = "batch_done"

\* the handles of the candidates of s
HandlesOf(s) == {s[i].handle : i \in 1..Len(s)}

\* s is t with some members left out, the order kept
RECURSIVE IsSubSeq(_, _)
IsSubSeq(s, t) ==
    IF s = <<>> THEN TRUE
    ELSE IF t = <<>> THEN FALSE
    ELSE IF Head(s) = Head(t) THEN IsSubSeq(Tail(s), Tail(t))
    ELSE IsSubSeq(s, Tail(t))

\* C36: in each query of discover_accounts_hybrid the API, when it is
\* preferred and usable, is searched before the web search; the web search
\* is consulted exactly when the API gave fewer than 5 candidates and the
\* fallback is enabled; the candidates of the API stay at the head of the
\* batch in their order, the candidates of the web search are appended in
\* theirs, and none with the handle of a candidate of the API is appended.
C36_HybridCombination ==
    [][/\ GrokConsulted
            => /\ unit_call.stage = "api_done"
               /\ (unit_call.prefer_x_api /\ unit_call.x_usable) => unit_call.api_tried
       /\ BatchBuilt
            => /\ unit_call'.grok_tried
                    <=> /\ Len(unit_call.api_batch) < 5
                        /\ unit_call.fallback_to_grok
                        /\ unit_call.has_grok
               /\ unit_call'.api_batch = unit_call.api_batch
               /\ Len(unit_call'.account_batch) >= Len(unit_call.api_batch)
               /\ SubSeq(unit_call'.account_batch, 1, Len(unit_call.api_batch))
                    = unit_call.api_batch
               /\ LET appended == SubSeq(unit_call'.account_batch,
                                         Len(unit_call.api_batch) + 1,
                                         Len(unit_call'.account_batch))
                  IN  /\ IsSubSeq(appended, unit_call'.grok_batch)
                      /\ HandlesOf(appended) \cap HandlesOf(unit_call.api_batch) = {}]_vars

\* the API gave one candidate, u; the web search gave u and z, and z alone
\* was appended
C36_Witness ==
    /\ unit_call.op = "discover"
    /\ unit_call.stage = "batch_done"
    /\ unit_call.api_tried
    /\ unit_call.grok_tried
    /\ Len(unit_call.api_batch) = 1
    /\ HandlesOf(unit_call.grok_batch) = {<<"u">>, <<"z">>}
    /\ Len(unit_call.account_batch) = 2
    /\ unit_call.account_batch[1] = unit_call.api_batch[1]
    /\ unit_call.account_batch[2].handle = <<"z">>
    /\ unit_call.account_batch[2].source = "grok_web_search"

\* the metrics the evaluation of the call uses
MetricsOfCall == MetricsUsed(unit_call.x_metrics, unit_call.account_info)

\* C37 as stated: the follower sub-score of an evaluation on metrics lies in
\* 0.0 .. 1.0 and does not decrease with the follower count: it is 1.0 from
\* 10,000 followers on, rises linearly from 0.5 to 1.0 between 1,000 and
\* 10,000, and is at most 0.5 below 1,000.
C37_AsStated ==
    (QualityDone /\ MetricsOfCall.available) =>
        LET f == MetricsOfCall.followers_count
            followers_norm == FollowersNorm(f)
        IN  /\ followers_norm >= 0
            /\ followers_norm <= ScoreUnit
            /\ \A g \in FollowerCounts :
                  g <= f => FollowersNorm(g) <= followers_norm
            /\ f >= 10000 => followers_norm = ScoreUnit
            /\ (f >= 1000 /\ f <= 10000)
                  => followers_norm
                        = ScoreUnit \div 2 + (ScoreUnit \div 18000) * (f - 1000)
            /\ f < 1000 => followers_norm <= ScoreUnit \div 2

\* the candidate has, for a configured attribute, a value without an entry
\* in the quota map of the attribute
Unlisted(a) ==
    \E attribute \in Configured :
        AttributeValue(a, attribute) \notin DOMAIN QuotasUsed[attribute]

\* C40: quota_sampling never admits a candidate whose value for a configured
\* attribute has no entry in the quota map of the attribute; with the
\* default quotas, a pool of candidates that all have the region "unknown"
\* yields an empty sample.
C40_MissingQuotaIsZero ==
    QuotaDone =>
        /\ ~sampler_call.raised
        /\ \A i \in 1..Len(sampler_call.result) : ~Unlisted(sampler_call.result[i])
        /\ (/\ sampler_call.op = "hybrid"
            /\ \A i \in 1..Len(sampler_call.accounts) :
                  sampler_call.accounts[i].region = "unknown")
              => sampler_call.result = <<>>

\* the default quotas of a sample of three, and a pool of two candidates of
\* the region "unknown": nothing is sampled
C40_Witness ==
    /\ QuotaDone
    /\ sampler_call.op = "hybrid"
    /\ sampler_call.num = 3
    /\ Len(sampler_call.accounts) = 2
    /\ \A i \in 1..2 : Unlisted(sampler_call.accounts[i])
    /\ \A i \in 1..2 : sampler_call.accounts[i].region = "unknown"
    /\ sampler_call.result = <<>>

\* the batch runner reports completion in this step: batch_processing is
\* reset to False
BatchReportsCompletion ==
    /\ unit_call.op = "uibatch"
    /\ unit_call.batch_processing
    /\ ~unit_call'.batch_processing

\* C38 as stated: when the batch runner resets batch_processing, every
\* account that was pending when the batch was started has been passed to
\* fetch_and_analyze_posts exactly once, and none of them is still pending.
C38_AsStated ==
    [][BatchReportsCompletion
        => \A a \in unit_call.started_with :
              /\ unit_call'.fetch_calls[a] = 1
              /\ unit_call'.account_status[a] # "pending"]_vars

\* a batch started with no more than BATCH_SIZE pending accounts fetches
\* each of them once and leaves none pending
SmallBatchComplete ==
    [][(BatchReportsCompletion /\ Cardinality(unit_call.started_with) <= BATCH_SIZE)
        => \A a \in unit_call.started_with :
              /\ unit_call'.fetch_calls[a] = 1
              /\ unit_call'.account_status[a] # "pending"]_vars

\* no account is fetched twice in one batch
FetchedAtMostOnce ==
    unit_call.op = "uibatch" => \A a \in 1..unit_call.n : unit_call.fetch_calls[a] <= 1

====
